---------------------------- MODULE Spec2Model ----------------------------
(***************************************************************************)
(* Live event ingestion and reply dispatch engine of cosvoiceai.           *)
(*                                                                         *)
(*   src/ai_reply_manager.py : AIReplyManager (comment queue, cycle(),     *)
(*                             dispatch worker, reply backends)            *)
(*   src/tiktok_monitor.py   : TikTokCommentFetcher (start/stop, the       *)
(*                             dedicated loop thread, graceful disconnect) *)
(*                                                                         *)
(* Strings are sequences of one-character strings, so that startswith,     *)
(* lower, "in", split and strip are computed and not assumed.              *)
(***************************************************************************)
EXTENDS Integers, Sequences, FiniteSets, TLC

(***************************************************************************)
(* Bounds of the model.                                                    *)
(***************************************************************************)
\* deque(maxlen=5000) scaled down: capacity of the comment queue.
MAXLEN == 2
\* Number of comments add_comment accepts in one behaviour.
MaxComments == 3
\* Largest value handed to set_max_batch.
MaxBatch == 2
\* accepted start() calls, and start() / stop() calls in all
MaxRuns == 2
MaxCalls == 3
\* adapter events handled
MaxEvents == 2

(***************************************************************************)
(* Strings.                                                                *)
(***************************************************************************)
LineHi == <<"a", ":", " ", "h", "i">>
LineHello == <<"b", ":", " ", "h", "e", "l", "l", "o", " ", "t", "h", "e", "r", "e">>
LineSystem == <<"[", "s", "y", "s", "]", " ", "x">>
LineEmpty == << >>
KwHello == <<"h", "e", "l", "l", "o">>

\* The lines handed to add_comment.
Lines == {LineHi, LineHello, LineSystem, LineEmpty}

Whitespace == {" ", "\t", "\n"}

UpperToLower ==
    [c \in {"A", "B", "H", "E", "L", "O", "T", "R"} |->
        CASE c = "A" -> "a" [] c = "B" -> "b" [] c = "H" -> "h" [] c = "E" -> "e"
          [] c = "L" -> "l" [] c = "O" -> "o" [] c = "T" -> "t" [] c = "R" -> "r"]

\* A comparison that keeps the case of both sides.
LowerKeepsCase(s) == s

\* str.lower()
Lower(s) ==
    [i \in 1..Len(s) |-> IF s[i] \in DOMAIN UpperToLower THEN UpperToLower[s[i]] ELSE s[i]]

\* str.startswith(c) for a one-character prefix
StartsWith(s, c) == Len(s) > 0 /\ s[1] = c

\* needle in hay
Contains(hay, needle) ==
    \E i \in 0..(Len(hay) - Len(needle)) : SubSeq(hay, i + 1, i + Len(needle)) = needle

RECURSIVE LStrip(_)
LStrip(s) == IF s # << >> /\ s[1] \in Whitespace THEN LStrip(Tail(s)) ELSE s

RECURSIVE RStrip(_)
RStrip(s) ==
    IF s # << >> /\ s[Len(s)] \in Whitespace THEN RStrip(SubSeq(s, 1, Len(s) - 1)) ELSE s

\* str.strip()
Strip(s) == RStrip(LStrip(s))

\* Position of the last ":" of s, 0 when there is none: a split from the right.
LastColon(s) ==
    IF \E i \in 1..Len(s) : s[i] = ":"
    THEN CHOOSE i \in 1..Len(s) : s[i] = ":" /\ \A j \in (i + 1)..Len(s) : s[j] # ":"
    ELSE 0

\* Position of the first ":" of s, 0 when there is none.
FirstColon(s) ==
    IF \E i \in 1..Len(s) : s[i] = ":"
    THEN CHOOSE i \in 1..Len(s) : s[i] = ":" /\ \A j \in 1..(i - 1) : s[j] # ":"
    ELSE 0

\* str.replace(pat, "") : every non-overlapping occurrence, left to right
RECURSIVE RemoveAll(_, _)
RemoveAll(s, pat) ==
    IF s = << >> THEN << >>
    ELSE IF Len(s) >= Len(pat) /\ SubSeq(s, 1, Len(pat)) = pat
         THEN RemoveAll(SubSeq(s, Len(pat) + 1, Len(s)), pat)
         ELSE <<s[1]>> \o RemoveAll(Tail(s), pat)

RECURSIVE Reverse(_)
Reverse(s) == IF s = << >> THEN << >> ELSE Reverse(Tail(s)) \o <<s[1]>>

(***************************************************************************)
(* State.                                                                  *)
(***************************************************************************)
VARIABLES
    \* ---- AIReplyManager ----
    mode,               \* self.mode
    cfg,                \* required configuration of each backend present?
    enabled,            \* self._enabled
    keyword_mode,       \* self._keyword_mode
    keywords,           \* self._keywords
    max_batch,          \* self._max_batch
    custom_prompt,      \* self._custom_system_prompt
    comment_q,          \* self._comment_q : sequence of [ts, line], oldest first
    lock,               \* self._lock : "free" or the context holding it
    worker_active,      \* self._worker_active (DispatchFlag)
    clock,              \* time.time() : number of comments accepted so far
    cyc,                \* per caller context: position in cycle() and its locals
    workers,            \* the dispatch worker threads, in spawn order
    dropped,            \* history: <<ts, why>> of every entry that left the queue
                        \* without a worker: "evicted" by a full deque, "cleared",
                        \* "filtered" out by cycle(), or accepted by cycle() beyond
                        \* items[0] ("surplus")
    rejected,           \* history: add_comment has returned at its guard
    emitted,            \* which signal (reply_signal / error_signal) each emission
                        \* used and the worker that made it, in order; the text
                        \* emitted is the reply field of that worker
    \* ---- TikTokCommentFetcher ----
    running,            \* self._running
    thread,             \* self._thread : 0 (None) or the run it belongs to
    loop,               \* self._loop : 0 (None) or the run that created it
    disconnect_grace,   \* self._disconnect_grace
    connected,          \* the connection of the shared client: 0, or the run
                        \* whose connect() holds it (client.connected is
                        \* connected # 0)
    runs,               \* position of each _run_loop thread, in start order
    coros,              \* the shutdown coroutines submitted by stop(), in order
    ctl,                \* the controller thread: position in stop(), its locals,
                        \* and history of the call (elapsed: seconds since it
                        \* began, mark: length of flog when it began, scen: it
                        \* began on a live connection that has not changed since
                        \* except through the shutdown coroutine)
    flog,               \* the messages given to _emit_error / _emit_info, in order
    calls,              \* number of start() and stop() calls made
    comment_callback,   \* self.comment_callback is wired (not None)
    error_callback,     \* self.error_callback is wired (not None)
    sink,               \* history: the calls made to the two callbacks by the
                        \* handlers, in order: [ch, text]
    escaped,            \* history: the handlers an exception has propagated
                        \* out of, in order
    events              \* number of adapter events handled

mgrVars == <<mode, cfg, enabled, keyword_mode, keywords, max_batch, custom_prompt,
             comment_q, lock, worker_active, clock, cyc, workers, dropped, rejected,
             emitted>>

fetVars == <<running, thread, loop, disconnect_grace, connected, runs, coros, ctl,
             flog, calls>>

hVars == <<comment_callback, error_callback, sink, escaped, events>>

vars == <<mgrVars, fetVars, hVars>>


(***************************************************************************)
(* Inputs and fixed strings of AIReplyManager.                             *)
(***************************************************************************)
Modes == {"openai", "dify", "coze", "echo"}
\* Values handed to set_mode: the four modes and one that is none of them.
ModeInputs == Modes \cup {"bogus"}
Backends == {"openai", "dify", "coze"}

\* Caller contexts of cycle(); UICaller is the QTimer's thread.
Callers == {"ui", "aux"}
UICaller == "ui"

KwHelloPadded == <<" ", "h", "e", "l", "l", "o", " ">>
\* Values handed to set_keyword_mode(enabled, keywords); "None" leaves the list.
KeywordInputs == {"None", << >>, <<KwHello>>, <<KwHelloPadded, <<" ">>>>}

EchoPrefix == <<"A", "I", "(", "E", "c", "h", "o", ")", ":", " ">>
\* The five characters U+89C2 U+4F17 U+8BC4 U+8BBA U+FF1A of the user prompt template.
UserPromptPrefix == <<"u89C2", "u4F17", "u8BC4", "u8BBA", "uFF1A">>
DefaultSystemPrompt == <<"D">>
CustomPromptText == <<"P">>
NoReplyPlaceholder == <<"[", "A", "I", "]", " ", "uFF08", "u65E0", "u56DE", "u590D", "uFF09">>
GeneratedText == <<"T", "h", "a", "n", "k", "s", "!">>
WorkerFailedText == <<"A", "I", " ", "u56DE", "u590D", "u5931", "u8D25">>
ErrorTagged == <<"[", "A", "I", "u9519", "u8BEF", "]">>
WarningTagged == <<"[", "A", "I", "u8B66", "u544A", "]">>

\* What the single network attempt of a configured backend can come to:
\*   ok        : a response whose text field holds text
\*   blank     : a response whose text field (message content, answer, text
\*               part of a content list) holds white space only
\*   malformed : a response without the field
\*   fail      : the transport or the HTTP status raised
Outcomes == {"ok", "blank", "malformed", "fail"}

\* A comment whose text holds the words of the user prompt template.
LineQuoted == <<"c", ":", " ">> \o UserPromptPrefix \o <<"o", "k">>
\* The lines dispatched through the backends.
BackendLines == {LineHi, LineQuoted}

IdleCtx == [pc |-> "idle", items |-> << >>, popped |-> << >>]

(***************************************************************************)
(* Pure helpers of AIReplyManager.                                         *)
(***************************************************************************)
\* A filter that ignores the keyword list: every line passes.
AcceptLineNoFilter(line) == TRUE

\* _accept_line
AcceptLine(line) ==
    IF ~keyword_mode THEN TRUE
    ELSE \E i \in 1..Len(keywords) : Contains(Lower(line), Lower(keywords[i]))

\* _extract_comment_text
ExtractCommentText(line) ==
    IF FirstColon(line) > 0
    THEN Strip(SubSeq(line, FirstColon(line) + 1, Len(line)))
    ELSE Strip(line)

\* _build_prompts : <<system_prompt, user_prompt>>
BuildPrompts(text) ==
    <<IF custom_prompt # << >> THEN custom_prompt ELSE DefaultSystemPrompt,
      UserPromptPrefix \o text>>

\* The "cleaned" keyword list of set_keyword_mode
CleanKeywords(kws) ==
    LET kept == {i \in 1..Len(kws) : Strip(kws[i]) # << >>}
        RECURSIVE Build(_)
        Build(i) == IF i > Len(kws) THEN << >>
                    ELSE (IF i \in kept THEN <<Strip(kws[i])>> ELSE << >>) \o Build(i + 1)
    IN Build(1)

\* deque(maxlen=1 more than MAXLEN): the append that forgets to evict.
DequeAppendNoEvict(q, e) == Append(q, e)

\* deque(maxlen=MAXLEN).append : a full deque drops its leftmost entry
DequeAppend(q, e) ==
    IF Len(q) >= MAXLEN THEN Append(Tail(q), e) ELSE Append(q, e)

\* A guard that turns away only the empty line.
AdmittedNonEmpty(line) == line # << >>

\* add_comment's guard
Admitted(line) == ~(line = << >> \/ StartsWith(line, "["))

\* Backends whose "except Exception" hands the failure on instead of turning
\* it into a string: the text of the worker's failure report comes out.
BackendCallUnhandled(m, prompts, text, configured, outcome) ==
    IF m = "echo" \/ ~configured THEN EchoPrefix \o text
    ELSE CASE outcome = "ok"        -> Strip(GeneratedText)
           [] outcome = "blank"     -> Strip(<<" ">>)
           [] outcome = "malformed" -> IF m = "openai" THEN WorkerFailedText
                                       ELSE WarningTagged
           [] outcome = "fail"      -> WorkerFailedText

\* The reply of a backend call, as _call_openai / _call_dify_agent /
\* _call_coze_agent compute it from the outcome of the network attempt.
BackendCall(m, prompts, text, configured, outcome) ==
    IF m = "echo" THEN EchoPrefix \o text
    ELSE IF ~configured
         THEN IF m = "openai"
              THEN EchoPrefix \o Strip(RemoveAll(prompts[2], UserPromptPrefix))
              ELSE EchoPrefix \o text
    ELSE CASE outcome = "ok"        -> Strip(GeneratedText)
           [] outcome = "blank"     -> Strip(<<" ">>)
           [] outcome = "malformed" -> IF m = "openai" THEN ErrorTagged ELSE WarningTagged
           [] outcome = "fail"      -> ErrorTagged

\* the required configuration of backend m is present in self.*_cfg now
Configured(m) == IF m \in Backends THEN cfg[m] ELSE FALSE

\* the reply of backend m called with the configuration of now
BackendReply(m, prompts, text, outcome) ==
    BackendCall(m, prompts, text, Configured(m), outcome)

\* history kept with each worker: the mode, configuration and custom prompt
\* in force when cycle() dispatched it
NoSnap == [mode |-> "-", cfg |-> [b \in Backends |-> FALSE], prompt |-> << >>]

(***************************************************************************)
(* Initial state: AIReplyManager.__init__                                  *)
(***************************************************************************)
MgrInit ==
    /\ mode = "echo"
    /\ cfg = [b \in Backends |-> FALSE]
    /\ enabled = FALSE
    /\ keyword_mode = FALSE
    /\ keywords = << >>
    /\ max_batch = 1
    /\ custom_prompt = << >>
    /\ comment_q = << >>
    /\ lock = "free"
    /\ worker_active = FALSE
    /\ clock = 0
    /\ cyc = [c \in Callers |-> IdleCtx]
    /\ workers = << >>
    /\ dropped = {}
    /\ rejected = FALSE
    /\ emitted = << >>

(***************************************************************************)
(* Configuration API.  The comments of the source place it in the UI       *)
(* thread, which is also the QTimer's thread that runs cycle(): a setter   *)
(* runs between two cycle() calls, and at any point of a worker's run.     *)
(***************************************************************************)
UIFree == cyc[UICaller].pc = "idle"

SetMode(m) ==
    /\ UIFree
    /\ mode' = IF m \notin Modes THEN "echo" ELSE m
    /\ UNCHANGED <<cfg, enabled, keyword_mode, keywords, max_batch, custom_prompt,
                   comment_q, lock, worker_active, clock, cyc, workers, dropped,
                   rejected, emitted>>

\* config_openai / config_dify / config_coze with the required fields all
\* given (ok) or one of them empty (~ok).
ConfigBackend(b, ok) ==
    /\ UIFree
    /\ cfg' = [cfg EXCEPT ![b] = ok]
    /\ UNCHANGED <<mode, enabled, keyword_mode, keywords, max_batch, custom_prompt,
                   comment_q, lock, worker_active, clock, cyc, workers, dropped,
                   rejected, emitted>>

SetEnabled(b) ==
    /\ UIFree
    /\ enabled' = b
    /\ UNCHANGED <<mode, cfg, keyword_mode, keywords, max_batch, custom_prompt,
                   comment_q, lock, worker_active, clock, cyc, workers, dropped,
                   rejected, emitted>>

SetKeywordMode(b, kws) ==
    /\ UIFree
    /\ keyword_mode' = b
    /\ keywords' = IF kws = "None" THEN keywords ELSE CleanKeywords(kws)
    /\ UNCHANGED <<mode, cfg, enabled, max_batch, custom_prompt, comment_q, lock,
                   worker_active, clock, cyc, workers, dropped, rejected, emitted>>

SetMaxBatch(n) ==
    /\ UIFree
    /\ max_batch' = IF n > 1 THEN n ELSE 1
    /\ UNCHANGED <<mode, cfg, enabled, keyword_mode, keywords, custom_prompt,
                   comment_q, lock, worker_active, clock, cyc, workers, dropped,
                   rejected, emitted>>

SetCustomPrompt(p) ==
    /\ UIFree
    /\ custom_prompt' = Strip(p)
    /\ UNCHANGED <<mode, cfg, enabled, keyword_mode, keywords, max_batch, comment_q,
                   lock, worker_active, clock, cyc, workers, dropped, rejected,
                   emitted>>

(***************************************************************************)
(* Queue operations.                                                       *)
(***************************************************************************)
ClearPendingComments ==
    /\ lock = "free"
    /\ comment_q' = << >>
    /\ dropped' = dropped \cup {<<comment_q[i].ts, "cleared">> : i \in 1..Len(comment_q)}
    /\ UNCHANGED <<mode, cfg, enabled, keyword_mode, keywords, max_batch,
                   custom_prompt, lock, worker_active, clock, cyc, workers, rejected,
                   emitted>>

AddComment(line) ==
    /\ IF ~Admitted(line)
       THEN /\ rejected' = TRUE
            /\ UNCHANGED <<comment_q, clock, dropped>>
       ELSE /\ clock < MaxComments
            /\ lock = "free"
            /\ clock' = clock + 1
            /\ comment_q' = DequeAppend(comment_q, [ts |-> clock + 1, line |-> line])
            /\ dropped' = dropped \cup
                             {<<comment_q[j].ts, "evicted">> : j \in {i \in 1..Len(comment_q) :
                                 \A k \in 1..Len(comment_q') : comment_q'[k] # comment_q[i]}}
            /\ UNCHANGED rejected
    /\ UNCHANGED <<mode, cfg, enabled, keyword_mode, keywords, max_batch,
                   custom_prompt, lock, worker_active, cyc, workers, emitted>>

(***************************************************************************)
(* cycle(), one step per shared read or write.  A caller context c is at   *)
(*   idle   : outside cycle()                                              *)
(*   chk    : past "if not self._enabled"                                  *)
(*   lock   : past "if self._worker_active", waiting for self._lock        *)
(*   drain  : inside "with self._lock", in or after the while loop         *)
(*   start  : items[0] chosen, about to run _start_worker                  *)
(*   spawn  : self._worker_active set, thread not yet started              *)
(* items is the local list of accepted entries; popped (the entries this   *)
(* call has removed, in pop order, kept until the lock is released) is     *)
(* history, read by no action.                                             *)
(***************************************************************************)
\* A cycle() that forgets the reentrancy guard.
CycleGuardMissing == FALSE

\* "if self._worker_active: return"
CycleGuard == worker_active

CycleEnter(c) ==
    /\ cyc[c].pc = "idle"
    /\ cyc' = [cyc EXCEPT ![c] =
                 IF ~enabled THEN IdleCtx ELSE [IdleCtx EXCEPT !.pc = "chk"]]
    /\ UNCHANGED <<mode, cfg, enabled, keyword_mode, keywords, max_batch,
                   custom_prompt, comment_q, lock, worker_active, clock, workers,
                   dropped, rejected, emitted>>

CycleCheckActive(c) ==
    /\ cyc[c].pc = "chk"
    /\ cyc' = [cyc EXCEPT ![c] =
                 IF CycleGuard THEN IdleCtx ELSE [cyc[c] EXCEPT !.pc = "lock"]]
    /\ UNCHANGED <<mode, cfg, enabled, keyword_mode, keywords, max_batch,
                   custom_prompt, comment_q, lock, worker_active, clock, workers,
                   dropped, rejected, emitted>>

CycleLock(c) ==
    /\ cyc[c].pc = "lock"
    /\ lock = "free"
    /\ lock' = c
    /\ cyc' = [cyc EXCEPT ![c].pc = "drain"]
    /\ UNCHANGED <<mode, cfg, enabled, keyword_mode, keywords, max_batch,
                   custom_prompt, comment_q, worker_active, clock, workers, dropped,
                   rejected, emitted>>

\* A loop that counts every pop against the batch size, accepted or not.
DrainMoreCountsPops(c) == comment_q # << >> /\ Len(cyc[c].popped) < max_batch

\* A loop that runs until the queue is empty, whatever the batch size.
DrainMoreNoLimit(c) == comment_q # << >>

\* "while self._comment_q and len(items) < self._max_batch"
DrainMore(c) == comment_q # << >> /\ Len(cyc[c].items) < max_batch

\* One pass of the loop body: pop() takes the newest entry.
CycleDrainStep(c) ==
    /\ cyc[c].pc = "drain"
    /\ lock = c
    /\ DrainMore(c)
    /\ LET e == comment_q[Len(comment_q)] IN
         /\ comment_q' = SubSeq(comment_q, 1, Len(comment_q) - 1)
         /\ cyc' = [cyc EXCEPT ![c].popped = Append(@, e),
                               ![c].items = IF AcceptLine(e.line) THEN Append(@, e) ELSE @]
    /\ dropped' = LET e == comment_q[Len(comment_q)] IN
                    IF AcceptLine(e.line) THEN dropped
                    ELSE dropped \cup {<<e.ts, "filtered">>}
    /\ UNCHANGED <<mode, cfg, enabled, keyword_mode, keywords, max_batch,
                   custom_prompt, lock, worker_active, clock, workers, rejected,
                   emitted>>

\* A cycle() that goes on to the dispatch inside the with block.
LockKeptAfterDrain(c) == c

\* the lock once c has left "with self._lock"
LockAfterDrain(c) == "free"

\* Leaving the with block, then "if not items: return" and
\* "comment_text = items[0]": the rest of items is not used again.
CycleUnlock(c) ==
    /\ cyc[c].pc = "drain"
    /\ lock = c
    /\ ~DrainMore(c)
    /\ lock' = LockAfterDrain(c)
    /\ cyc' = [cyc EXCEPT ![c] =
                 IF cyc[c].items = << >>
                 THEN IdleCtx
                 ELSE [cyc[c] EXCEPT !.pc = "start", !.popped = << >>,
                                     !.items = <<cyc[c].items[1]>>]]
    /\ dropped' = dropped \cup
                     {<<cyc[c].items[i].ts, "surplus">> : i \in 2..Len(cyc[c].items)}
    /\ UNCHANGED <<mode, cfg, enabled, keyword_mode, keywords, max_batch,
                   custom_prompt, comment_q, worker_active, clock, workers, rejected,
                   emitted>>

\* _start_worker, line 1: self._worker_active = True
CycleStartWorker(c) ==
    /\ cyc[c].pc = "start"
    /\ worker_active' = TRUE
    /\ cyc' = [cyc EXCEPT ![c].pc = "spawn"]
    /\ UNCHANGED <<mode, cfg, enabled, keyword_mode, keywords, max_batch,
                   custom_prompt, comment_q, lock, clock, workers, dropped, rejected,
                   emitted>>

NewWorker(e) ==
    [pc |-> "build", ts |-> e.ts, line |-> e.line, text |-> << >>,
     prompts |-> << << >>, << >> >>, mode |-> "-", conf |-> FALSE, reply |-> << >>,
     snap |-> [mode |-> mode, cfg |-> cfg, prompt |-> custom_prompt]]

\* _start_worker, lines 2-3: the thread is created with items[0] and started
CycleSpawn(c) ==
    /\ cyc[c].pc = "spawn"
    /\ workers' = Append(workers, NewWorker(cyc[c].items[1]))
    /\ cyc' = [cyc EXCEPT ![c] = IdleCtx]
    /\ UNCHANGED <<mode, cfg, enabled, keyword_mode, keywords, max_batch,
                   custom_prompt, comment_q, lock, worker_active, clock, dropped,
                   rejected, emitted>>

(***************************************************************************)
(* _worker_run.  A worker w is at                                          *)
(*   build   : thread started, before _extract_comment_text/_build_prompts *)
(*   select  : prompts built, before the read of self.mode                 *)
(*   incall  : inside _call_openai / _call_dify_agent / _call_coze_agent   *)
(*   emit    : reply computed, before reply_signal.emit                    *)
(*   except  : an exception was raised inside the try block                *)
(*   finally : emission done (reply holds the text that was emitted),      *)
(*             before "self._worker_active = False"                        *)
(*   done    : thread ended                                                *)
(***************************************************************************)
WorkerBuild(w) ==
    /\ workers[w].pc = "build"
    /\ LET text == ExtractCommentText(workers[w].line) IN
         workers' = [workers EXCEPT ![w].pc = "select", ![w].text = text,
                                    ![w].prompts = BuildPrompts(text)]
    /\ UNCHANGED <<mode, cfg, enabled, keyword_mode, keywords, max_batch,
                   custom_prompt, comment_q, lock, worker_active, clock, cyc, dropped,
                   rejected, emitted>>

\* The if/elif chain on self.mode; the echo branch computes its reply at once,
\* a backend call begins by reading self.*_cfg.
WorkerSelect(w) ==
    /\ workers[w].pc = "select"
    /\ workers' = [workers EXCEPT
                     ![w].mode = mode,
                     ![w].conf = Configured(mode),
                     ![w].pc = IF mode = "echo" THEN "emit" ELSE "incall",
                     ![w].reply = IF mode = "echo"
                                  THEN BackendReply("echo", workers[w].prompts,
                                                    workers[w].text, "ok")
                                  ELSE << >>]
    /\ UNCHANGED <<mode, cfg, enabled, keyword_mode, keywords, max_batch,
                   custom_prompt, comment_q, lock, worker_active, clock, cyc, dropped,
                   rejected, emitted>>

\* The backend call returns a string, whatever the network attempt came to.
WorkerCallReturn(w, outcome) ==
    /\ workers[w].pc = "incall"
    /\ workers' = [workers EXCEPT
                     ![w].pc = "emit",
                     ![w].reply = BackendCall(workers[w].mode, workers[w].prompts,
                                              workers[w].text, workers[w].conf,
                                              outcome)]
    /\ UNCHANGED <<mode, cfg, enabled, keyword_mode, keywords, max_batch,
                   custom_prompt, comment_q, lock, worker_active, clock, cyc, dropped,
                   rejected, emitted>>

\* A try block whose last statement is not the emission: it can still raise
\* after reply_signal.emit.
RaisePointsAfterEmit == {"build", "select", "incall", "finally"}

\* The positions of the try block at which an exception can be raised: every
\* statement before reply_signal.emit, the last statement of the block.
RaisePoints == {"build", "select", "incall"}

\* An exception raised inside the try block, outside the backends' own handlers.
WorkerRaise(w) ==
    /\ workers[w].pc \in RaisePoints
    /\ workers' = [workers EXCEPT ![w].pc = "except"]
    /\ UNCHANGED <<mode, cfg, enabled, keyword_mode, keywords, max_batch,
                   custom_prompt, comment_q, lock, worker_active, clock, cyc, dropped,
                   rejected, emitted>>

\* "if not reply: reply = placeholder" and reply_signal.emit(reply)
WorkerEmitReply(w) ==
    /\ workers[w].pc = "emit"
    /\ emitted' = Append(emitted, [kind |-> "reply", w |-> w, ts |-> workers[w].ts])
    /\ workers' = [workers EXCEPT ![w].pc = "finally",
                                  ![w].reply = IF @ = << >> THEN NoReplyPlaceholder ELSE @]
    /\ UNCHANGED <<mode, cfg, enabled, keyword_mode, keywords, max_batch,
                   custom_prompt, comment_q, lock, worker_active, clock, cyc, dropped,
                   rejected>>

\* except Exception: error_signal.emit(...)
WorkerEmitError(w) ==
    /\ workers[w].pc = "except"
    /\ emitted' = Append(emitted, [kind |-> "error", w |-> w, ts |-> workers[w].ts])
    /\ workers' = [workers EXCEPT ![w].pc = "finally", ![w].reply = WorkerFailedText]
    /\ UNCHANGED <<mode, cfg, enabled, keyword_mode, keywords, max_batch,
                   custom_prompt, comment_q, lock, worker_active, clock, cyc, dropped,
                   rejected>>

\* A finally block that leaves the flag as it is.
FlagAfterWorkerKept == worker_active

\* finally: self._worker_active = False
FlagAfterWorker == FALSE

\* The finally block; the thread ends with it and its locals are gone.
WorkerFinally(w) ==
    /\ workers[w].pc = "finally"
    /\ worker_active' = FlagAfterWorker
    /\ workers' = [workers EXCEPT ![w] =
                     [workers[w] EXCEPT !.pc = "done", !.line = << >>, !.text = << >>,
                                        !.prompts = << << >>, << >> >>,
                                        !.mode = "-", !.conf = FALSE,
                                        !.reply = << >>, !.snap = NoSnap]]
    /\ UNCHANGED <<mode, cfg, enabled, keyword_mode, keywords, max_batch,
                   custom_prompt, comment_q, lock, clock, cyc, dropped, rejected,
                   emitted>>

\* The steps a worker takes if nothing is raised.
WorkerStep(w) ==
    /\ w <= Len(workers)
    /\ \/ WorkerBuild(w)
       \/ WorkerSelect(w)
       \/ \E o \in Outcomes : WorkerCallReturn(w, o)
       \/ WorkerEmitReply(w)
       \/ WorkerEmitError(w)
       \/ WorkerFinally(w)

Cycle(c) ==
    \/ CycleEnter(c)
    \/ CycleCheckActive(c)
    \/ CycleLock(c)
    \/ CycleDrainStep(c)
    \/ CycleUnlock(c)
    \/ CycleStartWorker(c)
    \/ CycleSpawn(c)

(***************************************************************************)
(* TikTokCommentFetcher (tiktok_monitor.py).                               *)
(*                                                                         *)
(* One controller thread calls start() and stop(), one call at a time.     *)
(* Every accepted start() begins a new run of _run_loop on its own thread  *)
(* with its own event loop; runs are numbered in start order and 0 stands  *)
(* for None in _thread and _loop.  The TikTokLive client is shared by all  *)
(* runs; what it does is the environment's choice: is_live() answers or    *)
(* raises, connect() establishes a connection or fails, an established     *)
(* connection may end from the remote side, disconnect() completes, raises *)
(* or hangs.  Cancelling a task ends it at once.                           *)
(*                                                                         *)
(* Time is counted in seconds by Tick.  Steps of the code take no time:    *)
(* Tick is taken only when no thread has a step of its own to take, so     *)
(* only the two timers (wait_for in the shutdown coroutine, join in        *)
(* stop()) and the environment let time pass.  The 0.1 s probe of stop()   *)
(* is shorter than one Tick.                                               *)
(***************************************************************************)

\* messages of _emit_error / _emit_info, named by what they report
ErrAlreadyRunning  == "error: already running"
ErrNotRunning      == "error: not connected or already stopped"
ErrSubmitFailed    == "error: stop scheduling failed"
ErrLiveCheckFailed == "error: live check failed"
ErrNotLive         == "error: not live or invalid user"
ErrStartFailed     == "error: start failed"
ErrStopTimeout     == "error: stop timed out, forcing disconnect"
ErrStopFailed      == "error: stop failed"
InfoConnected      == "info: connected"
InfoDisconnected   == "info: disconnected"
InfoStopped        == "info: stopped"

DefaultDisconnectGrace == 5
DefaultStopTimeout == 5

\* disconnect_grace given to the constructor, timeout given to stop()
GraceInputs == {2, DefaultDisconnectGrace}
TimeoutInputs == {1, DefaultStopTimeout}

IdleCtl == [pc |-> "idle", timeout |-> 0, left |-> 0, co |-> 0, elapsed |-> 0,
            mark |-> 0, scen |-> FALSE]

FetInit(g) ==
    /\ running = FALSE
    /\ thread = 0
    /\ loop = 0
    /\ disconnect_grace = g
    /\ connected = 0
    /\ runs = << >>
    /\ coros = << >>
    /\ ctl = IdleCtl
    /\ flog = << >>
    /\ calls = 0

\* lines 62-63: the callbacks given to the constructor
HInit(cc, ec) ==
    /\ comment_callback = cc
    /\ error_callback = ec
    /\ sink = << >>
    /\ escaped = << >>
    /\ events = 0

\* the loop of run k is inside run_until_complete
LoopRunning(k) == runs[k] \in {"islive", "connect", "serve"}
\* loop.close() has been called on the loop of run k
LoopClosed(k) == runs[k] \in {"closing", "dead"}

\* stop() is called on a live connection: the current run is connected and
\* _loop is its loop
Live == thread # 0 /\ runs[thread] = "serve" /\ connected = thread /\ loop = thread

\* the connection changed by itself while stop() is in progress
Disturbed(c) == [c EXCEPT !.scen = FALSE]

(***************************************************************************)
(* start()                                                                 *)
(***************************************************************************)
StartGuardMissing == FALSE

StartGuard == running

Start ==
    /\ ctl.pc = "idle"
    /\ calls < MaxCalls
    /\ calls' = calls + 1
    /\ IF StartGuard
         THEN /\ flog' = Append(flog, ErrAlreadyRunning)
              /\ UNCHANGED <<running, thread, runs>>
         ELSE /\ Len(runs) < MaxRuns
              /\ running' = TRUE
              /\ runs' = Append(runs, "boot")
              /\ thread' = Len(runs) + 1
              /\ UNCHANGED flog
    /\ UNCHANGED <<loop, disconnect_grace, connected, coros, ctl>>

(***************************************************************************)
(* stop(timeout)                                                           *)
(***************************************************************************)
StopGuardMissing == FALSE

StopGuard == ~running

StopEnter(t) ==
    /\ ctl.pc = "idle"
    /\ calls < MaxCalls
    /\ calls' = calls + 1
    /\ IF StopGuard
         THEN /\ flog' = Append(flog, ErrNotRunning)
              /\ UNCHANGED ctl
         ELSE /\ ctl' = [pc |-> "stop_submit", timeout |-> t, left |-> 0, co |-> 0,
                         elapsed |-> 0, mark |-> Len(flog), scen |-> Live]
              /\ UNCHANGED flog
    /\ UNCHANGED <<running, thread, loop, disconnect_grace, connected, runs, coros>>

AfterSubmitFailureReturn == IdleCtl

AfterSubmitFailure == [ctl EXCEPT !.pc = "stop_join", !.left = ctl.timeout]

\* lines 118-123 and 129-130: _loop is None, or scheduling on it raises, or
\* the coroutine is scheduled
StopSubmit ==
    /\ ctl.pc = "stop_submit"
    /\ IF loop = 0
         THEN /\ ctl' = [ctl EXCEPT !.pc = "stop_join", !.left = ctl.timeout]
              /\ UNCHANGED <<coros, flog>>
         ELSE IF LoopClosed(loop)
           THEN /\ flog' = Append(flog, ErrSubmitFailed)
                /\ ctl' = AfterSubmitFailure
                /\ UNCHANGED coros
           ELSE /\ coros' = Append(coros, [loop |-> loop, pc |-> "queued", left |-> 0])
                /\ ctl' = [ctl EXCEPT !.pc = "stop_probe", !.co = Len(coros) + 1]
                /\ UNCHANGED flog
    /\ UNCHANGED <<running, thread, loop, disconnect_grace, connected, runs, calls>>

\* lines 125-130: the probe ends silently unless the future was cancelled
StopProbe ==
    /\ ctl.pc = "stop_probe"
    /\ IF coros[ctl.co].pc = "cancelled"
         THEN /\ flog' = Append(flog, ErrSubmitFailed)
              /\ ctl' = AfterSubmitFailure
         ELSE /\ ctl' = [ctl EXCEPT !.pc = "stop_join", !.left = ctl.timeout]
              /\ UNCHANGED flog
    /\ UNCHANGED <<running, thread, loop, disconnect_grace, connected, runs, coros,
                   calls>>

\* lines 132-133: join returns when the thread has ended or the timeout is up
StopJoinReturn ==
    /\ ctl.pc = "stop_join"
    /\ runs[thread] = "dead" \/ ctl.left = 0
    /\ ctl' = [ctl EXCEPT !.pc = "stop_end"]
    /\ UNCHANGED <<running, thread, loop, disconnect_grace, connected, runs, coros,
                   flog, calls>>

\* lines 135-136
StopFinish ==
    /\ ctl.pc = "stop_end"
    /\ running' = FALSE
    /\ flog' = Append(flog, InfoStopped)
    /\ ctl' = IdleCtl
    /\ UNCHANGED <<thread, loop, disconnect_grace, connected, runs, coros, calls>>

(***************************************************************************)
(* _run_loop, run k                                                        *)
(***************************************************************************)
\* lines 145-147
RunBoot(k) ==
    /\ runs[k] = "boot"
    /\ runs' = [runs EXCEPT ![k] = "islive"]
    /\ loop' = k
    /\ UNCHANGED <<running, thread, disconnect_grace, connected, coros, ctl, flog,
                   calls>>

AfterLiveFailureFallsThrough == "connect"

\* lines 155 and 159: return, which leaves through the finally clause
AfterLiveFailure == "cleanup"

\* lines 151-159
RunIsLive(k, res) ==
    /\ runs[k] = "islive"
    /\ \/ /\ res = "live"
          /\ runs' = [runs EXCEPT ![k] = "connect"]
          /\ UNCHANGED flog
       \/ /\ res = "offline"
          /\ runs' = [runs EXCEPT ![k] = AfterLiveFailure]
          /\ flog' = Append(flog, ErrNotLive)
       \/ /\ res = "raise"
          /\ runs' = [runs EXCEPT ![k] = AfterLiveFailure]
          /\ flog' = Append(flog, ErrLiveCheckFailed)
    /\ UNCHANGED <<running, thread, loop, disconnect_grace, connected, coros, ctl,
                   calls>>

\* lines 162-168 and 82-83: connect() establishes the connection, or raises;
\* the shared client refuses a second connection
RunConnect(k, ok) ==
    /\ runs[k] = "connect"
    /\ IF ok
         THEN /\ connected = 0
              /\ connected' = k
              /\ runs' = [runs EXCEPT ![k] = "serve"]
              /\ flog' = Append(flog, InfoConnected)
         ELSE /\ runs' = [runs EXCEPT ![k] = "cleanup"]
              /\ flog' = Append(flog, ErrStartFailed)
              /\ UNCHANGED connected
    /\ UNCHANGED <<running, thread, loop, disconnect_grace, coros, ctl, calls>>

\* lines 162-168 and 85-86: connect() returns because the connection ended
\* ("closed": from the remote side, or after disconnect() of the shutdown
\* coroutine) or raises
RunServeEnd(k, how) ==
    /\ runs[k] = "serve"
    /\ runs' = [runs EXCEPT ![k] = "cleanup"]
    /\ \/ /\ how = "closed"
          /\ flog' = IF connected = k THEN Append(flog, InfoDisconnected) ELSE flog
       \/ /\ how = "raise"
          /\ connected = k
          /\ flog' = Append(flog, ErrStartFailed)
    /\ connected' = IF connected = k THEN 0 ELSE connected
    /\ ctl' = IF connected = k THEN Disturbed(ctl) ELSE ctl
    /\ UNCHANGED <<running, thread, loop, disconnect_grace, coros, calls>>

\* what the cleanup of lines 170-178 leaves of a shutdown coroutine on the
\* loop: a started one is cancelled, one not yet started never runs
AfterClose(c) ==
    IF c.pc \in {"waitdisc", "finalize"} THEN [c EXCEPT !.pc = "cancelled", !.left = 0]
    ELSE IF c.pc = "queued" THEN [c EXCEPT !.pc = "lost"]
    ELSE c

\* lines 170-178
RunCloseLoop(k) ==
    /\ runs[k] = "cleanup"
    /\ runs' = [runs EXCEPT ![k] = "closing"]
    /\ coros' = [i \in 1..Len(coros) |->
                    IF coros[i].loop = k THEN AfterClose(coros[i]) ELSE coros[i]]
    /\ UNCHANGED <<running, thread, loop, disconnect_grace, connected, ctl, flog,
                   calls>>

RunningAfterRunKept == running

\* line 179
RunningAfterRun == FALSE

\* line 179, after which the thread ends
RunClearRunning(k) ==
    /\ runs[k] = "closing"
    /\ runs' = [runs EXCEPT ![k] = "dead"]
    /\ running' = RunningAfterRun
    /\ UNCHANGED <<thread, loop, disconnect_grace, connected, coros, ctl, flog,
                   calls>>

(***************************************************************************)
(* _graceful_disconnect_then_shutdown, coroutine i                         *)
(***************************************************************************)
GraceBudgetDefault(g) == DefaultDisconnectGrace

\* timeout given to wait_for (line 188)
GraceBudget(g) == g

\* lines 186-188
CoStart(i) ==
    /\ coros[i].pc = "queued"
    /\ LoopRunning(coros[i].loop)
    /\ coros' = [coros EXCEPT ![i] =
                    IF connected # 0
                      THEN [@ EXCEPT !.pc = "waitdisc",
                                     !.left = GraceBudget(disconnect_grace)]
                      ELSE [@ EXCEPT !.pc = "finalize"]]
    /\ UNCHANGED <<running, thread, loop, disconnect_grace, connected, runs, ctl,
                   flog, calls>>

\* lines 188, 191-192: disconnect() completes or raises
CoDisconnect(i, how) ==
    /\ coros[i].pc = "waitdisc"
    /\ LoopRunning(coros[i].loop)
    /\ coros' = [coros EXCEPT ![i] = [@ EXCEPT !.pc = "finalize", !.left = 0]]
    /\ \/ /\ how = "done"
          /\ connected' = 0
          /\ flog' = Append(flog, InfoDisconnected)
       \/ /\ how = "raise"
          /\ flog' = Append(flog, ErrStopFailed)
          /\ UNCHANGED connected
    /\ ctl' = Disturbed(ctl)
    /\ UNCHANGED <<running, thread, loop, disconnect_grace, runs, calls>>

\* lines 189-190: the grace period is over
CoTimeout(i) ==
    /\ coros[i].pc = "waitdisc"
    /\ coros[i].left = 0
    /\ LoopRunning(coros[i].loop)
    /\ coros' = [coros EXCEPT ![i] = [@ EXCEPT !.pc = "finalize"]]
    /\ flog' = Append(flog, ErrStopTimeout)
    /\ UNCHANGED <<running, thread, loop, disconnect_grace, connected, runs, ctl,
                   calls>>

\* lines 193-199: every other task of the loop is cancelled and the loop
\* stopped, which ends the run_until_complete of the run: silently when the
\* cancellation propagates (CancelledError is not an Exception), or through
\* the except clause of the run when the stopped loop makes it raise
CoFinalize(i, surfaced) ==
    LET k == coros[i].loop IN
    /\ coros[i].pc = "finalize"
    /\ LoopRunning(k)
    /\ coros' = [j \in 1..Len(coros) |->
                    IF j = i THEN [coros[j] EXCEPT !.pc = "done"]
                    ELSE IF coros[j].loop = k /\ coros[j].pc \in {"waitdisc", "finalize"}
                      THEN [coros[j] EXCEPT !.pc = "cancelled", !.left = 0]
                    ELSE coros[j]]
    /\ runs' = [runs EXCEPT ![k] = "cleanup"]
    /\ connected' = IF connected = k THEN 0 ELSE connected
    /\ flog' = IF ~surfaced THEN flog
               ELSE IF runs[k] = "islive" THEN Append(flog, ErrLiveCheckFailed)
               ELSE Append(flog, ErrStartFailed)
    /\ UNCHANGED <<running, thread, loop, disconnect_grace, ctl, calls>>

(***************************************************************************)
(* Time                                                                    *)
(***************************************************************************)
\* some thread has a step of the code to take now
StepPending ==
    \/ ctl.pc \in {"stop_submit", "stop_probe", "stop_end"}
    \/ ctl.pc = "stop_join" /\ (runs[thread] = "dead" \/ ctl.left = 0)
    \/ \E k \in 1..Len(runs) :
          \/ runs[k] \in {"boot", "cleanup", "closing"}
          \/ runs[k] = "serve" /\ connected # k
    \/ \E i \in 1..Len(coros) :
          /\ LoopRunning(coros[i].loop)
          /\ \/ coros[i].pc \in {"queued", "finalize"}
             \/ coros[i].pc = "waitdisc" /\ coros[i].left = 0

TimerRunning ==
    \/ ctl.pc = "stop_join"
    \/ \E i \in 1..Len(coros) : coros[i].pc = "waitdisc"

Tick ==
    /\ TimerRunning
    /\ ~StepPending
    /\ ctl' = IF ctl.pc = "idle" THEN ctl
              ELSE [ctl EXCEPT !.left = IF @ > 0 THEN @ - 1 ELSE 0,
                               !.elapsed = @ + 1]
    /\ coros' = [i \in 1..Len(coros) |->
                    IF coros[i].pc = "waitdisc"
                      THEN [coros[i] EXCEPT !.left = @ - 1]
                      ELSE coros[i]]
    /\ UNCHANGED <<running, thread, loop, disconnect_grace, connected, runs, flog,
                   calls>>

(***************************************************************************)
(* FetchSpec: the fetcher under every order of start() and stop() calls,   *)
(* every constructor grace and stop timeout of the inputs, and every       *)
(* behaviour of the client.  FairFetchSpec adds that threads keep running  *)
(* and time keeps passing.                                                 *)
(***************************************************************************)
FetchInit == MgrInit /\ HInit(TRUE, TRUE) /\ \E g \in GraceInputs : FetInit(g)

FetchStep ==
    \/ Start
    \/ \E t \in TimeoutInputs : StopEnter(t)
    \/ StopSubmit
    \/ StopProbe
    \/ StopJoinReturn
    \/ StopFinish
    \/ \E k \in 1..Len(runs) :
          \/ RunBoot(k)
          \/ \E res \in {"live", "offline", "raise"} : RunIsLive(k, res)
          \/ \E ok \in BOOLEAN : RunConnect(k, ok)
          \/ \E how \in {"closed", "raise"} : RunServeEnd(k, how)
          \/ RunCloseLoop(k)
          \/ RunClearRunning(k)
    \/ \E i \in 1..Len(coros) :
          \/ CoStart(i)
          \/ \E how \in {"done", "raise"} : CoDisconnect(i, how)
          \/ CoTimeout(i)
          \/ \E surfaced \in BOOLEAN : CoFinalize(i, surfaced)
    \/ Tick

FetchNext == FetchStep /\ UNCHANGED <<mgrVars, hVars>>

FetchSpec == FetchInit /\ [][FetchNext]_vars

\* the steps of the code: everything but the calls, the client and time
CodeStep ==
    \/ StopSubmit
    \/ StopProbe
    \/ StopJoinReturn
    \/ StopFinish
    \/ \E k \in 1..Len(runs) : RunBoot(k) \/ RunCloseLoop(k) \/ RunClearRunning(k)
                                \/ (connected # k /\ RunServeEnd(k, "closed"))
    \/ \E i \in 1..Len(coros) : CoStart(i) \/ CoTimeout(i) \/ CoFinalize(i, FALSE)

FairFetchSpec ==
    /\ FetchSpec
    /\ WF_vars(CodeStep /\ UNCHANGED <<mgrVars, hVars>>)
    /\ WF_vars(Tick /\ UNCHANGED <<mgrVars, hVars>>)

(***************************************************************************)
(* The event handlers of the fetcher and its emit helpers, with the        *)
(* callbacks given to the constructor (each wired or None).  A wired       *)
(* callback is code of the caller: a call of it returns or raises.         *)
(* sink records every callback call, escaped every handler an exception    *)
(* has left.                                                               *)
(***************************************************************************)
InfoTag == <<"[", "u7CFB", "u7EDF", "]", " ">>
WarnTag == <<"[", "u26A0", "uFE0F", "]", " ">>
ErrCommentHandler == "error: comment handling failed"

\* fields of a CommentEvent: nickname, unique id, comment text
Nicknames == {<< >>, <<"a", "l">>}
UniqueIds == {<< >>, <<"u", "1">>}
CommentTexts == {<< >>, <<"h", "i">>}

\* lines 204-209: the callback calls _emit_error(msg) makes
EmitErrorCalls(msg) ==
    IF error_callback THEN <<[ch |-> "error", text |-> <<msg>>]>>
    ELSE IF comment_callback THEN <<[ch |-> "comment", text |-> WarnTag \o <<msg>>]>>
    ELSE << >>

\* An _emit_info that forwards the message as it is.
EmitInfoCallsBare(msg) ==
    IF comment_callback THEN <<[ch |-> "comment", text |-> <<msg>>]>>
    ELSE << >>

\* lines 211-214: the callback calls _emit_info(msg) makes
EmitInfoCalls(msg) ==
    IF comment_callback THEN <<[ch |-> "comment", text |-> InfoTag \o <<msg>>]>>
    ELSE << >>

\* line 91: event.user.nickname or event.user.unique_id or "?"
Username(nick, uid) ==
    IF nick # << >> THEN nick ELSE IF uid # << >> THEN uid ELSE <<"?">>

\* line 93
FormatComment(nick, uid, text) == Username(nick, uid) \o <<":", " ">> \o text

\* the handlers an exception of their body cannot leave: the ones whose
\* body is inside try / except Exception (lines 90-98)
HandlerGuard(h) == IF h = "on_comment" THEN <<h>> ELSE << >>

\* lines 82-83 and 85-86: _on_connect / _on_disconnect; cRaises: the comment
\* callback raises when called
OnLifecycle(h, msg, cRaises) ==
    /\ events < MaxEvents
    /\ events' = events + 1
    /\ flog' = Append(flog, msg)
    /\ sink' = sink \o EmitInfoCalls(msg)
    /\ escaped' = IF comment_callback /\ cRaises /\ HandlerGuard(h) = << >>
                    THEN Append(escaped, h) ELSE escaped
    /\ UNCHANGED <<comment_callback, error_callback>>

OnConnect(cRaises) == OnLifecycle("on_connect", InfoConnected, cRaises)

OnDisconnect(cRaises) == OnLifecycle("on_disconnect", InfoDisconnected, cRaises)

\* lines 88-98: _on_comment; bad: reading the event raises; cRaises: the
\* comment callback raises on the line; rRaises: the callback that
\* _emit_error uses raises on the report
OnComment(nick, uid, text, bad, cRaises, rRaises) ==
    LET tried  == IF ~bad /\ comment_callback
                    THEN <<[ch |-> "comment", text |-> FormatComment(nick, uid, text)]>>
                    ELSE << >>
        caught == bad \/ (comment_callback /\ cRaises)
        report == EmitErrorCalls(ErrCommentHandler)
    IN  /\ events < MaxEvents
        /\ events' = events + 1
        /\ IF caught
             THEN /\ flog' = Append(flog, ErrCommentHandler)
                  /\ sink' = sink \o tried \o report
                  /\ escaped' = IF report # << >> /\ rRaises
                                  THEN Append(escaped, "on_comment") ELSE escaped
             ELSE /\ sink' = sink \o tried
                  /\ UNCHANGED <<flog, escaped>>
        /\ UNCHANGED <<comment_callback, error_callback>>

(***************************************************************************)
(* HandlerSpec: every wiring of the two callbacks, and the adapter         *)
(* delivering connect, disconnect and comment events in any order.         *)
(***************************************************************************)
HandlerInit ==
    /\ MgrInit
    /\ FetInit(DefaultDisconnectGrace)
    /\ \E cc \in BOOLEAN, ec \in BOOLEAN : HInit(cc, ec)

HandlerStep ==
    \/ \E cRaises \in BOOLEAN : OnConnect(cRaises)
    \/ \E cRaises \in BOOLEAN : OnDisconnect(cRaises)
    \/ \E nick \in Nicknames, uid \in UniqueIds, text \in CommentTexts,
          bad \in BOOLEAN, cRaises \in BOOLEAN, rRaises \in BOOLEAN :
          OnComment(nick, uid, text, bad, cRaises, rRaises)

HandlerNext ==
    /\ HandlerStep
    /\ UNCHANGED <<mgrVars, running, thread, loop, disconnect_grace, connected, runs,
                   coros, ctl, calls>>

HandlerSpec == HandlerInit /\ [][HandlerNext]_vars

(***************************************************************************)
(* WireSpec: the fetcher's comment callback is AIReplyManager.add_comment  *)
(* (it returns, it does not raise), its error callback is wired or not.    *)
(* The adapter delivers events, start(), stop() and the worker thread      *)
(* report through _emit_error / _emit_info, and the engine cycles.         *)
(***************************************************************************)
NickBracket == <<"[", "v", "]">>
WireNicknames == Nicknames \cup {NickBracket}

\* the messages start(), stop(), _run_loop and the shutdown coroutine report
ErrorMessages == {ErrAlreadyRunning, ErrNotRunning, ErrSubmitFailed, ErrLiveCheckFailed,
                  ErrNotLive, ErrStartFailed, ErrStopTimeout, ErrStopFailed}
InfoMessages == {InfoStopped}

\* the comment callback, called with what the handler of this step hands it
Deliver ==
    LET new == SubSeq(sink', Len(sink) + 1, Len(sink')) IN
      IF new # << >> /\ new[1].ch = "comment"
        THEN AddComment(new[1].text)
        ELSE UNCHANGED mgrVars

\* _emit_error(msg) / _emit_info(msg) called outside the event handlers
Report(kind, msg) ==
    /\ events < MaxEvents
    /\ events' = events + 1
    /\ flog' = Append(flog, msg)
    /\ sink' = sink \o (IF kind = "error" THEN EmitErrorCalls(msg) ELSE EmitInfoCalls(msg))
    /\ UNCHANGED <<comment_callback, error_callback, escaped>>

WireInit ==
    /\ MgrInit
    /\ FetInit(DefaultDisconnectGrace)
    /\ \E ec \in BOOLEAN : HInit(TRUE, ec)

WireStep ==
    \/ \E nick \in WireNicknames, uid \in UniqueIds, text \in CommentTexts, bad \in BOOLEAN :
          OnComment(nick, uid, text, bad, FALSE, FALSE) /\ Deliver
    \/ OnConnect(FALSE) /\ Deliver
    \/ OnDisconnect(FALSE) /\ Deliver
    \/ \E msg \in ErrorMessages : Report("error", msg) /\ Deliver
    \/ \E msg \in InfoMessages : Report("info", msg) /\ Deliver
    \/ SetEnabled(TRUE) /\ UNCHANGED <<hVars, flog>>
    \/ Cycle(UICaller) /\ UNCHANGED <<hVars, flog>>
    \/ \E w \in 1..Len(workers) :
          /\ WorkerBuild(w) \/ WorkerSelect(w) \/ WorkerEmitReply(w) \/ WorkerFinally(w)
          /\ UNCHANGED <<hVars, flog>>

WireNext ==
    /\ WireStep
    /\ UNCHANGED <<running, thread, loop, disconnect_grace, connected, runs, coros,
                   ctl, calls>>

WireSpec == WireInit /\ [][WireNext]_vars

(***************************************************************************)
(* ExtractSpec: lines formatted by _on_comment from speaker names without  *)
(* a colon and texts with blanks and colons, and a line without a colon    *)
(* handed to add_comment, are enqueued, dispatched and taken apart by      *)
(* _extract_comment_text.                                                  *)
(***************************************************************************)
TextPadded == <<" ", "h", "i", " ">>
TextColon == <<"a", ":", "b">>
ExtractTexts == {<< >>, TextPadded, TextColon}
LineNoColon == <<" ", "h", "e", "y", " ">>

ExtractInit == MgrInit /\ FetInit(DefaultDisconnectGrace) /\ HInit(TRUE, TRUE)

ExtractStep ==
    \/ \E nick \in Nicknames, uid \in UniqueIds, text \in ExtractTexts :
          OnComment(nick, uid, text, FALSE, FALSE, FALSE) /\ Deliver
    \/ AddComment(LineNoColon) /\ UNCHANGED <<hVars, flog>>
    \/ SetEnabled(TRUE) /\ UNCHANGED <<hVars, flog>>
    \/ Cycle(UICaller) /\ UNCHANGED <<hVars, flog>>
    \/ \E w \in 1..Len(workers) :
          /\ WorkerBuild(w) \/ WorkerSelect(w) \/ WorkerEmitReply(w) \/ WorkerFinally(w)
          /\ UNCHANGED <<hVars, flog>>

ExtractNext ==
    /\ ExtractStep
    /\ UNCHANGED <<running, thread, loop, disconnect_grace, connected, runs, coros,
                   ctl, calls>>

ExtractSpec == ExtractInit /\ [][ExtractNext]_vars

(***************************************************************************)
(* Spec: queue, filter and dispatch with one cycle() caller; the backend   *)
(* stays the "echo" of __init__.                                           *)
(***************************************************************************)
Init == MgrInit /\ FetInit(DefaultDisconnectGrace) /\ HInit(TRUE, TRUE)

MgrNext ==
    \/ \E b \in BOOLEAN : SetEnabled(b)
    \/ \E b \in BOOLEAN, kws \in KeywordInputs : SetKeywordMode(b, kws)
    \/ \E n \in 0..MaxBatch : SetMaxBatch(n)
    \/ ClearPendingComments
    \/ \E l \in Lines : AddComment(l)
    \/ Cycle(UICaller)
    \/ \E w \in 1..Len(workers) :
          \/ WorkerBuild(w)
          \/ WorkerSelect(w)
          \/ WorkerEmitReply(w)
          \/ WorkerRaise(w)
          \/ WorkerEmitError(w)
          \/ WorkerFinally(w)

Next == MgrNext /\ UNCHANGED <<fetVars, hVars>>

Spec == Init /\ [][Next]_vars

(***************************************************************************)
(* DispatchSpec: the dispatch worker on every path of _worker_run, once    *)
(* the engine is enabled: the echo branch, a backend call (Dify) with its  *)
(* configuration missing or present and every outcome of the network      *)
(* attempt, and an exception.  The filter and batch size stay those of     *)
(* __init__.  FairDispatchSpec adds the scheduling the threads get: a      *)
(* started thread keeps running, a network call ends (30 s timeout), and   *)
(* the caller of _start_worker goes on to start the thread.                *)
(***************************************************************************)
DispatchStep ==
    \/ \E m \in {"dify", "bogus"} : SetMode(m)
    \/ \E ok \in BOOLEAN : ConfigBackend("dify", ok)
    \/ SetEnabled(TRUE)
    \/ AddComment(LineHello)
    \/ Cycle(UICaller)
    \/ \E w \in 1..Len(workers) : WorkerStep(w) \/ WorkerRaise(w)

DispatchNext == DispatchStep /\ UNCHANGED <<fetVars, hVars>>

DispatchSpec == Init /\ [][DispatchNext]_vars

FairDispatchSpec ==
    /\ DispatchSpec
    /\ \A w \in 1..MaxComments : WF_vars(WorkerStep(w) /\ UNCHANGED <<fetVars, hVars>>)
    /\ WF_vars(CycleSpawn(UICaller) /\ UNCHANGED <<fetVars, hVars>>)

(***************************************************************************)
(* ConfigSpec: the configuration API called while dispatches are in        *)
(* flight: backend selection, Dify configuration and custom prompt change  *)
(* at any moment the UI thread is not inside cycle().                      *)
(***************************************************************************)
ConfigStep ==
    \/ \E m \in {"dify", "bogus"} : SetMode(m)
    \/ \E ok \in BOOLEAN : ConfigBackend("dify", ok)
    \/ \E p \in {<< >>, CustomPromptText, <<" ">>} : SetCustomPrompt(p)
    \/ SetEnabled(TRUE)
    \/ AddComment(LineHello)
    \/ Cycle(UICaller)
    \/ \E w \in 1..Len(workers) : WorkerStep(w)

ConfigNext == ConfigStep /\ UNCHANGED <<fetVars, hVars>>

ConfigSpec == Init /\ [][ConfigNext]_vars

(***************************************************************************)
(* BackendSpec: every backend variant with its configuration missing or    *)
(* present and every outcome of its network attempt.  The mode and the     *)
(* configurations are set before the first comment arrives and stay.  The  *)
(* statements of _call_* outside their try block read string fields of the *)
(* configuration and build dictionaries: nothing is raised there.          *)
(***************************************************************************)
BackendStep ==
    \/ clock = 0 /\ \E m \in Modes : SetMode(m)
    \/ clock = 0 /\ \E b \in Backends, ok \in BOOLEAN : ConfigBackend(b, ok)
    \/ SetEnabled(TRUE)
    \/ \E l \in BackendLines : AddComment(l)
    \/ Cycle(UICaller)
    \/ \E w \in 1..Len(workers) :
          \/ WorkerStep(w)
          \/ workers[w].pc # "incall" /\ WorkerRaise(w)

BackendNext == BackendStep /\ UNCHANGED <<fetVars, hVars>>

BackendSpec == Init /\ [][BackendNext]_vars

(***************************************************************************)
(* FilterSpec: _accept_line applied by the drain to lines and keyword      *)
(* lists that differ in case and in where the keyword stands.              *)
(***************************************************************************)
LineShout == <<"B", ":", " ", "H", "E", "L", "L", "O">>
LineSpeaker == <<"h", "e", "l", "l", "o", ":", " ", "x">>
FilterLines == {LineHi, LineHello, LineShout, LineSpeaker}
KwUpper == <<"H", "e", "L", "L", "o">>
FilterKeywordInputs == {"None", << >>, <<KwHello>>, <<KwUpper, <<"t", "h", "e", "r", "e">>>>}

FilterStep ==
    \/ SetEnabled(TRUE)
    \/ \E b \in BOOLEAN, kws \in FilterKeywordInputs : SetKeywordMode(b, kws)
    \/ \E l \in FilterLines : AddComment(l)
    \/ Cycle(UICaller)
    \/ \E w \in 1..Len(workers) :
          \/ WorkerBuild(w)
          \/ WorkerSelect(w)
          \/ WorkerEmitReply(w)
          \/ WorkerFinally(w)

FilterNext == FilterStep /\ UNCHANGED <<fetVars, hVars>>

FilterSpec == Init /\ [][FilterNext]_vars

(***************************************************************************)
(* RaceSpec: cycle() invoked from two caller contexts, the QTimer's thread *)
(* and one more thread, in every interleaving of their steps.              *)
(***************************************************************************)
RaceStep ==
    \/ SetEnabled(TRUE)
    \/ \E l \in {LineHi, LineHello} : AddComment(l)
    \/ \E c \in Callers : Cycle(c)
    \/ \E w \in 1..Len(workers) :
          \/ WorkerBuild(w)
          \/ WorkerSelect(w)
          \/ WorkerEmitReply(w)
          \/ WorkerFinally(w)

RaceNext == RaceStep /\ UNCHANGED <<fetVars, hVars>>

RaceSpec == Init /\ [][RaceNext]_vars

(***************************************************************************)
(* State functions used by the properties.                                 *)
(***************************************************************************)
\* The workers that have not yet run their finally block.
ActiveWorkers == {w \in 1..Len(workers) : workers[w].pc # "done"}

EmissionsOf(w) == {i \in 1..Len(emitted) : emitted[i].w = w}

DroppedTs == {d[1] : d \in dropped}

\* c has left the while loop of cycle() and still holds the lock.
DrainDone(c) == cyc[c].pc = "drain" /\ lock = c /\ ~DrainMore(c)

\* The queue as it was when c took the lock.
QueueBefore(c) == comment_q \o Reverse(cyc[c].popped)

LinesOf(q) == [i \in 1..Len(q) |-> q[i].line]

(***************************************************************************)
(* C1.  With one caller context of cycle(), at most one dispatch worker    *)
(* is active at any instant, and a worker is only started (the caller is   *)
(* between setting the flag and starting the thread) when every earlier    *)
(* worker has cleared the flag.  Checked under Spec.                       *)
(***************************************************************************)
C1_SingleFlight ==
    /\ Cardinality(ActiveWorkers) <= 1
    /\ \A c \in Callers : cyc[c].pc \in {"start", "spawn"} => ActiveWorkers = {}

\* A second dispatch is in flight, a comment is waiting, and a cycle() call
\* stands at the reentrancy guard.
C1_Witness ==
    /\ Len(workers) >= 2
    /\ ActiveWorkers # {}
    /\ worker_active
    /\ comment_q # << >>
    /\ cyc[UICaller].pc = "chk"

(***************************************************************************)
(* C2.  Emissions and dispatches correspond one to one: a worker has made  *)
(* no emission before its emit step and exactly one (a reply or an error)  *)
(* from then on, every emission belongs to a worker and carries that       *)
(* worker's comment, no comment is dispatched twice, and no comment that   *)
(* was filtered out, evicted or cleared has an emission.  Checked under    *)
(* Spec.                                                                   *)
(***************************************************************************)
C2_OneEmissionPerDispatch ==
    /\ \A w \in 1..Len(workers) :
          Cardinality(EmissionsOf(w)) =
              IF workers[w].pc \in {"finally", "done"} THEN 1 ELSE 0
    /\ \A i \in 1..Len(emitted) :
          /\ emitted[i].w \in 1..Len(workers)
          /\ emitted[i].ts = workers[emitted[i].w].ts
          /\ emitted[i].kind \in {"reply", "error"}
          /\ emitted[i].ts \notin DroppedTs
    /\ \A v, w \in 1..Len(workers) : v # w => workers[v].ts # workers[w].ts
    /\ \A w \in 1..Len(workers) : workers[w].ts \in 1..clock

\* One dispatch ended with a reply, another with an error, a third comment
\* was filtered out, and a line was turned away by add_comment.
C2_Witness ==
    /\ \E i, j \in 1..Len(emitted) : emitted[i].kind = "reply" /\ emitted[j].kind = "error"
    /\ ActiveWorkers = {}
    /\ \E d \in dropped : d[2] = "filtered"
    /\ rejected

(***************************************************************************)
(* C3.  The finally block of a worker leaves DispatchFlag false on every   *)
(* path, and whenever DispatchFlag is true it later becomes false (so the  *)
(* guard of cycle() lets a later call through).  Checked under             *)
(* FairDispatchSpec.                                                       *)
(***************************************************************************)
C3_FlagCleared ==
    /\ [][\A w \in 1..Len(workers) :
            (workers[w].pc = "finally" /\ workers'[w].pc = "done") => ~worker_active']_vars
    /\ worker_active ~> ~worker_active

\* The first worker ended in its except branch, the flag was cleared, a later
\* cycle() dispatched again, and that worker got a backend failure as a value.
C3_Witness ==
    /\ Len(workers) >= 2
    /\ workers[1].pc = "done"
    /\ emitted[1].kind = "error"
    /\ workers[2].pc = "finally"
    /\ workers[2].mode # "echo"
    /\ workers[2].reply = ErrorTagged

(***************************************************************************)
(* C4.  The queue never holds more than MAXLEN entries, and an accepted    *)
(* add_comment on a full queue drops exactly the oldest entry, keeps the   *)
(* others in order and puts the new entry last.  Checked under Spec.       *)
(***************************************************************************)
C4_QueueBounded ==
    /\ [](Len(comment_q) <= MAXLEN)
    /\ [][(clock' = clock + 1 /\ Len(comment_q) = MAXLEN) =>
            /\ Len(comment_q') = MAXLEN
            /\ SubSeq(comment_q', 1, MAXLEN - 1) = Tail(comment_q)
            /\ comment_q'[MAXLEN].ts = clock'
            /\ dropped' = dropped \cup {<<comment_q[1].ts, "evicted">>}]_vars

\* A full queue whose oldest entry was evicted by an add.
C4_Witness ==
    /\ Len(comment_q) = MAXLEN
    /\ comment_q[MAXLEN].ts = clock
    /\ \E d \in dropped : d[2] = "evicted" /\ d[1] < comment_q[1].ts

(***************************************************************************)
(* C5.  add_comment with an empty line or a line that starts with "["      *)
(* leaves the queue as it is, and no entry of the queue (or taken from it  *)
(* by cycle()) is empty or starts with "[".  Checked under Spec.           *)
(***************************************************************************)
C5_SystemLinesNotAdmitted ==
    /\ [](\A i \in 1..Len(comment_q) :
             comment_q[i].line # << >> /\ comment_q[i].line[1] # "[")
    /\ [](\A c \in Callers : \A i \in 1..Len(cyc[c].popped) :
             cyc[c].popped[i].line # << >> /\ cyc[c].popped[i].line[1] # "[")
    /\ [][clock' = clock => (Len(comment_q') <= Len(comment_q))]_vars
    /\ [][(rejected' /\ ~rejected) => comment_q' = comment_q]_vars

\* add_comment has turned a line away while the queue held entries.
C5_Witness == rejected /\ comment_q # << >>

(***************************************************************************)
(* C6.  Filter {"hello"}, engine enabled, no dispatch in flight, queue     *)
(* "a: hi" then "b: hello there".                                          *)
(***************************************************************************)
\* The caller has finished the drain of a cycle() that started in the
\* scenario's state.
C6_Scenario ==
    /\ DrainDone(UICaller)
    /\ enabled /\ ~worker_active
    /\ keyword_mode /\ keywords = <<KwHello>>
    /\ LinesOf(QueueBefore(UICaller)) = <<LineHi, LineHello>>

\* The claim as stated: the cycle() takes "b: hello there" for dispatch and
\* "a: hi" has left the queue.
C6_AsClaimed ==
    C6_Scenario =>
        /\ LinesOf(cyc[UICaller].items) = <<LineHello>>
        /\ \A i \in 1..Len(comment_q) : comment_q[i].line # LineHi

\* As amended: the cycle() takes "b: hello there" and nothing else for
\* dispatch; with max_batch = 1 "a: hi" is still in the queue when the
\* drain ends, with max_batch >= 2 it was popped and filtered out; and
\* while the filter is {"hello"} no cycle() takes "a: hi" for dispatch.
C6_ScenarioOutcome ==
    /\ C6_Scenario =>
          /\ LinesOf(cyc[UICaller].items) = <<LineHello>>
          /\ max_batch = 1 =>
                /\ LinesOf(comment_q) = <<LineHi>>
                /\ comment_q[1].ts \notin DroppedTs
          /\ max_batch > 1 =>
                /\ comment_q = << >>
                /\ <<QueueBefore(UICaller)[1].ts, "filtered">> \in dropped
    /\ (keyword_mode /\ keywords = <<KwHello>>) =>
          \A i \in 1..Len(cyc[UICaller].items) : cyc[UICaller].items[i].line # LineHi

\* The scenario's cycle() with the default max_batch.
C6_Witness == C6_Scenario /\ max_batch = 1

(***************************************************************************)
(* State functions used by the properties of the fetcher.                  *)
(***************************************************************************)
\* number of times message m was emitted after the first n messages
CountSince(m, n) == Cardinality({i \in (n + 1)..Len(flog) : flog[i] = m})

\* this step is the return of a stop() call that got past its guard
StopReturns == ctl.pc # "idle" /\ ctl'.pc = "idle"

\* everything of the fetcher but the messages and the call counter
fetState == <<running, thread, loop, disconnect_grace, connected, runs, coros, ctl>>

(***************************************************************************)
(* C7: stop(timeout=5) on a live connection whose disconnect never         *)
(* completes, with a grace of 2 s: the call returns no later than 2 s      *)
(* after it began, the timeout warning was emitted exactly once during     *)
(* the call, and at its return _running is false and the thread of the     *)
(* run has ended.                                                          *)
(***************************************************************************)
C7_StopWithinGrace ==
    [][(/\ StopReturns
        /\ ctl.scen
        /\ ctl.timeout = DefaultStopTimeout
        /\ disconnect_grace = 2)
       => /\ ctl.elapsed <= 2
          /\ CountSince(ErrStopTimeout, ctl.mark) = 1
          /\ ~running'
          /\ runs'[thread'] = "dead"]_vars

C7_Witness ==
    /\ ctl.pc = "stop_end"
    /\ ctl.scen
    /\ ctl.timeout = DefaultStopTimeout
    /\ disconnect_grace = 2
    /\ ctl.elapsed = 2
    /\ flog[Len(flog)] = ErrStopTimeout

(***************************************************************************)
(* C8: a stop() call made while _running is false emits the "not           *)
(* connected or already stopped" error and changes nothing else: no        *)
(* coroutine is submitted, no thread joined, _running stays false, and no  *)
(* "stopped" message is emitted.                                           *)
(***************************************************************************)
C8_StopWhenNotRunning ==
    [][(calls' = calls + 1 /\ ~running /\ Len(runs') = Len(runs))
       => /\ flog' = Append(flog, ErrNotRunning)
          /\ UNCHANGED fetState]_vars

C8_Witness ==
    /\ calls = MaxCalls
    /\ Len(flog) >= 3
    /\ flog[1] = ErrNotRunning
    /\ flog[Len(flog)] = ErrNotRunning
    /\ Len(runs) = 1
    /\ runs[1] = "dead"

(***************************************************************************)
(* C9: a start() call made while _running is true emits the "already       *)
(* running" error and changes nothing else: no thread is started, and      *)
(* _running, _thread and _loop stay as they are.  A thread is only ever    *)
(* started while _running is false.                                        *)
(***************************************************************************)
C9_StartWhileRunning ==
    /\ [][(calls' = calls + 1 /\ running /\ ctl'.pc = "idle")
          => /\ flog' = Append(flog, ErrAlreadyRunning)
             /\ UNCHANGED fetState]_vars
    /\ [][Len(runs') > Len(runs) => ~running]_vars

C9_Witness ==
    /\ Len(flog) >= 1
    /\ flog[Len(flog)] = ErrAlreadyRunning
    /\ Len(runs) = 1
    /\ runs[1] = "serve"
    /\ connected = 1
    /\ running

(***************************************************************************)
(* C10: every stop() call that got past its guard returns, and its return  *)
(* is the step that sets _running to false and emits the "stopped"         *)
(* message; no other step emits that message, so each such call emits it   *)
(* exactly once, whatever happened to the coroutine and the join.          *)
(***************************************************************************)
C10_StopAlwaysStops ==
    /\ [][StopReturns => (~running' /\ flog' = Append(flog, InfoStopped))]_vars
    /\ [][CountSince(InfoStopped, 0)' # CountSince(InfoStopped, 0) => StopReturns]_vars
    /\ [](ctl.pc # "idle" => CountSince(InfoStopped, ctl.mark) = 0)
    /\ (ctl.pc # "idle") ~> (ctl.pc = "idle")

\* a stop() call has returned because its join timed out: the coroutine is
\* still waiting for disconnect() and the thread is still connected
C10_Witness ==
    /\ ctl.pc = "idle"
    /\ ~running
    /\ CountSince(InfoStopped, 0) = 1
    /\ flog[Len(flog)] = InfoStopped
    /\ thread = 1
    /\ runs[1] = "serve"
    /\ connected = 1
    /\ Len(coros) = 1
    /\ coros[1].pc = "waitdisc"

\* the run has left its try block: it is in, or past, the finally clause
Ending(k) == runs[k] \in {"cleanup", "closing", "dead"}

\* run k takes a step of its own finally clause
CleanupStep(k) ==
    \/ runs[k] = "cleanup" /\ runs'[k] = "closing"
    \/ runs[k] = "closing" /\ runs'[k] = "dead"

(***************************************************************************)
(* C11: when is_live() raises or answers "not live", that step of the run  *)
(* emits one error and takes the run to its finally clause; from there     *)
(* the run emits nothing, never calls is_live() or connect() again, and    *)
(* ends, and its last step sets _running to false.                         *)
(***************************************************************************)
C11_LiveCheckFailure ==
    /\ [][\A k \in 1..Len(runs) :
            (runs[k] = "islive" /\ runs'[k] # "islive" /\ coros' = coros)
            => \/ runs'[k] = "connect" /\ flog' = flog
               \/ /\ runs'[k] = "cleanup"
                  /\ \E e \in {ErrNotLive, ErrLiveCheckFailed} : flog' = Append(flog, e)]_vars
    /\ [][\A k \in 1..Len(runs) :
            /\ Ending(k) => Ending(k)'
            /\ CleanupStep(k) => flog' = flog
            /\ (runs[k] = "closing" /\ runs'[k] = "dead") => ~running']_vars
    /\ \A k \in 1..MaxRuns :
          (k <= Len(runs) /\ runs[k] = "cleanup") ~> (k <= Len(runs) /\ runs[k] = "dead")

\* two runs have ended, one on "not live", one on a failed query, each with
\* its one error and without a connection
C11_Witness ==
    /\ Len(runs) = 2
    /\ runs[1] = "dead"
    /\ runs[2] = "dead"
    /\ flog = <<ErrNotLive, ErrLiveCheckFailed>>
    /\ ~running
    /\ connected = 0

\* the errors of a failed liveness check and of a failed connect-and-serve
FailureErrors == {ErrNotLive, ErrLiveCheckFailed, ErrStartFailed}

(***************************************************************************)
(* C12: a failed liveness check or connect() is fatal to its run.  The     *)
(* step that emits one of their errors takes a run out of its try block;   *)
(* a run that has left its try block never re-enters it and never          *)
(* connects again, and a connection is only ever established by a run      *)
(* coming from its connect() call; such a run ends with _running false;    *)
(* a new run begins only in a start() call; and whenever _running is       *)
(* false a start() call is accepted: it sets _running and starts a run.    *)
(***************************************************************************)
C12_FailureIsFatal ==
    /\ [][(\E e \in FailureErrors : flog' = Append(flog, e))
          => \E k \in 1..Len(runs) : ~Ending(k) /\ runs'[k] = "cleanup"]_vars
    /\ [][\A k \in 1..Len(runs) :
            /\ Ending(k) => (Ending(k)' /\ connected' # k)
            /\ (connected' = k /\ connected # k)
               => (runs[k] = "connect" /\ runs'[k] = "serve")]_vars
    /\ [][Len(runs') # Len(runs)
          => (calls' = calls + 1 /\ runs' = Append(runs, "boot") /\ ~running)]_vars
    /\ \A k \in 1..MaxRuns :
          (k <= Len(runs) /\ runs[k] = "cleanup") ~> ~running
    /\ []((ctl.pc = "idle" /\ ~running /\ calls < MaxCalls /\ Len(runs) < MaxRuns)
          => ENABLED (/\ Start
                      /\ UNCHANGED <<mgrVars, hVars>>
                      /\ running'
                      /\ runs' = Append(runs, "boot")
                      /\ thread' = Len(runs')))

\* after a run that connected and then failed, and whose thread has ended,
\* a second start() was accepted and its run is at the liveness check
C12_Witness ==
    /\ Len(runs) = 2
    /\ runs[1] = "dead"
    /\ runs[2] = "islive"
    /\ running
    /\ flog = <<InfoConnected, ErrStartFailed>>
    /\ calls = 2

(***************************************************************************)
(* The connection state of the specification, read off the fetcher: what   *)
(* is_running() reports, refined while it is true by whether stop() is in  *)
(* progress and by where the thread of the current run is.                 *)
(***************************************************************************)
ConnState ==
    IF runs = << >> THEN "Idle"
    ELSE IF ~running THEN "Stopped"
    ELSE IF ctl.pc # "idle" \/ Ending(thread) THEN "Disconnecting"
    ELSE IF runs[thread] = "serve" THEN "Live"
    ELSE "Connecting"

StateOrder == <<"Idle", "Connecting", "Live", "Disconnecting", "Stopped">>

Rank(st) == CHOOSE i \in 1..Len(StateOrder) : StateOrder[i] = st

\* the state never moves backwards except when start() begins a new run
StateMovesForward ==
    [][IF Len(runs') > Len(runs)
         THEN ConnState \in {"Idle", "Stopped"} /\ ConnState' = "Connecting"
         ELSE Rank(ConnState') >= Rank(ConnState)]_vars

(***************************************************************************)
(* C13: within one run the connection state only moves forward along       *)
(* Idle, Connecting, Live, Disconnecting, Stopped, a new run begins only   *)
(* with start(), and once the state is Stopped no thread goes live (comes  *)
(* out of connect() with a connection) until start() is called again.      *)
(***************************************************************************)
C13_StateMonotonic ==
    /\ StateMovesForward
    /\ [][\A k \in 1..Len(runs) :
            (runs[k] # "serve" /\ runs'[k] = "serve") => ConnState # "Stopped"]_vars

(***************************************************************************)
(* C14: no exception raised while an adapter event is handled, a raising   *)
(* comment or error callback included, leaves the handler: after any       *)
(* events, no handler has let one out.                                     *)
(***************************************************************************)
C14_HandlersContainExceptions == escaped = << >>

(***************************************************************************)
(* C15: a dispatch uses the backend selection, backend configuration and   *)
(* custom prompt in force when cycle() dispatched it: the system prompt a  *)
(* worker has built, the mode it has read and the configuration its        *)
(* backend call has read are those of the moment its thread was started.   *)
(***************************************************************************)
C15_ConfigSnapshot ==
    \A w \in 1..Len(workers) :
       /\ workers[w].pc \in {"select", "incall", "emit"}
          => workers[w].prompts[1] = IF workers[w].snap.prompt # << >>
                                       THEN workers[w].snap.prompt
                                       ELSE DefaultSystemPrompt
       /\ workers[w].pc \in {"incall", "emit"}
          => /\ workers[w].mode = workers[w].snap.mode
             /\ workers[w].mode \in Backends
                => workers[w].conf = workers[w].snap.cfg[workers[w].mode]

(***************************************************************************)
(* C16.  For every backend variant and every outcome of its network        *)
(* attempt (configuration missing, transport or HTTP failure, response     *)
(* without text, success) the backend call returns a string and raises     *)
(* nothing, and the dispatch ends with a reply emission, never with an     *)
(* error emission.  The emission carries the returned string when it is    *)
(* not empty (Echo text, error-tagged, warning-tagged or generated text);  *)
(* a returned empty string is emitted as the placeholder.                  *)
(***************************************************************************)
IsEchoText(r) == Len(r) >= Len(EchoPrefix) /\ SubSeq(r, 1, Len(EchoPrefix)) = EchoPrefix

IsTaggedOrGenerated(r) == r \in {ErrorTagged, WarningTagged, GeneratedText}

\* worker w leaves its backend call in this step
CallReturns(w) == workers[w].pc = "incall" /\ workers'[w].pc # "incall"

\* worker w performs its emission in this step
Emits(w) == workers[w].pc = "emit" /\ workers'[w].pc # "emit"

ReplyEmitted(w) ==
    emitted' = Append(emitted, [kind |-> "reply", w |-> w, ts |-> workers[w].ts])

C16_BackendOutcome ==
    [][\A w \in 1..Len(workers) :
          /\ CallReturns(w) =>
                /\ workers'[w].pc = "emit"
                /\ \/ IsEchoText(workers'[w].reply)
                   \/ IsTaggedOrGenerated(workers'[w].reply)
                   \/ workers'[w].reply = << >>
          /\ Emits(w) =>
                /\ ReplyEmitted(w)
                /\ workers'[w].reply # << >>
                /\ workers[w].reply # << >> => workers'[w].reply = workers[w].reply]_vars

\* C16 as the claim words it: the emission always carries the returned value,
\* which is one of the four kinds of text.
C16_AsClaimed ==
    [][\A w \in 1..Len(workers) :
          /\ CallReturns(w) =>
                /\ workers'[w].pc = "emit"
                /\ IsEchoText(workers'[w].reply) \/ IsTaggedOrGenerated(workers'[w].reply)
          /\ Emits(w) =>
                /\ ReplyEmitted(w)
                /\ workers'[w].reply = workers[w].reply]_vars

\* a configured backend's attempt failed and its error-tagged string went out
\* as a reply
C16_Witness ==
    \E w \in 1..Len(workers) :
       /\ workers[w].pc = "finally"
       /\ workers[w].mode \in Backends
       /\ workers[w].conf
       /\ workers[w].reply = ErrorTagged
       /\ emitted # << >>
       /\ emitted[Len(emitted)] = [kind |-> "reply", w |-> w, ts |-> workers[w].ts]

(***************************************************************************)
(* C17.  A dispatch through the OpenAI, Dify or Coze backend whose         *)
(* required configuration is absent emits the reply the Echo backend emits *)
(* for the same line: "AI(Echo): " followed by the extracted comment text. *)
(***************************************************************************)
C17_FallbackIsEcho ==
    [][\A w \in 1..Len(workers) :
          (CallReturns(w) /\ workers[w].mode \in Backends /\ ~workers[w].conf)
             => workers'[w].reply =
                   BackendCall("echo", workers[w].prompts,
                               ExtractCommentText(workers[w].line), FALSE, "ok")]_vars

(***************************************************************************)
(* C18.  cycle() called while the engine is disabled, or while the         *)
(* dispatch flag is true, is a no-op: a call that finds the engine         *)
(* disabled can change nothing at all, and a call that finds the flag set  *)
(* returns at once; no step of a call up to the flag test changes the      *)
(* queue, the flag, the workers or the emissions, so what was enqueued     *)
(* stays queued.                                                           *)
(***************************************************************************)
\* a step of cycle() in context c that changes the manager's state
CycleChanges(c) ==
    Cycle(c) /\ mgrVars' # mgrVars /\ UNCHANGED <<fetVars, hVars>>

C18_CycleNoOp ==
    /\ [](\A c \in Callers :
            (cyc[c].pc = "idle" /\ ~enabled) => ~ENABLED CycleChanges(c))
    /\ [][\A c \in Callers :
            (cyc[c].pc \in {"idle", "chk"} /\ cyc'[c] # cyc[c])
               => /\ UNCHANGED <<comment_q, worker_active, workers, emitted, dropped>>
                  /\ (cyc[c].pc = "chk" /\ worker_active) => cyc'[c] = IdleCtx]_vars

\* a cycle() call stands at the flag test while a dispatch is in flight and
\* a comment is queued
C18_Witness ==
    /\ cyc[UICaller].pc = "chk"
    /\ worker_active
    /\ ActiveWorkers # {}
    /\ comment_q # << >>
    /\ emitted # << >>

(***************************************************************************)
(* C19.  With max_batch = 1 a dispatching cycle() handles the queue        *)
(* newest first: the entry it dispatches is the most recently enqueued     *)
(* entry that passes the filter, every newer entry has left the queue and  *)
(* every older entry is still in it, in the original order.                *)
(***************************************************************************)
\* positions of the queue c found whose lines pass the filter
Passing(c) == {i \in 1..Len(QueueBefore(c)) : AcceptLine(QueueBefore(c)[i].line)}

NewestPassing(c) == CHOOSE i \in Passing(c) : \A j \in Passing(c) : j <= i

\* this step starts the thread of the dispatch c prepared
Spawns(c) == cyc[c].pc = "spawn" /\ cyc'[c].pc # "spawn"

C19_NewestFirst ==
    /\ [](\A c \in Callers :
            (DrainDone(c) /\ max_batch = 1 /\ cyc[c].items # << >>)
               => /\ Passing(c) # {}
                  /\ cyc[c].items = <<QueueBefore(c)[NewestPassing(c)]>>
                  /\ comment_q = SubSeq(QueueBefore(c), 1, NewestPassing(c) - 1))
    /\ [][\A c \in Callers :
            /\ (DrainDone(c) /\ cyc[c].items # << >> /\ cyc'[c] # cyc[c])
                  => cyc'[c].items = <<cyc[c].items[1]>> /\ comment_q' = comment_q
            /\ Spawns(c)
                  => /\ Len(workers') = Len(workers) + 1
                     /\ workers'[Len(workers')].ts = cyc[c].items[1].ts
                     /\ workers'[Len(workers')].line = cyc[c].items[1].line]_vars

\* the newest entry failed the filter and was removed, the one before it is
\* taken for dispatch
C19_Witness ==
    /\ DrainDone(UICaller)
    /\ max_batch = 1
    /\ Len(cyc[UICaller].popped) = 2
    /\ cyc[UICaller].items = <<cyc[UICaller].popped[2]>>

(***************************************************************************)
(* C20.  A cycle() that accepts no entry spawns no worker, leaves the flag *)
(* as it is and emits nothing.  It has emptied the queue: every entry it   *)
(* found failed the filter and was discarded, so the queue is the same as  *)
(* before the call only when the call found it empty.                      *)
(***************************************************************************)
C20_NothingAccepted ==
    /\ [](\A c \in Callers :
            (DrainDone(c) /\ cyc[c].items = << >>)
               => /\ comment_q = << >>
                  /\ \A i \in 1..Len(QueueBefore(c)) :
                        /\ ~AcceptLine(QueueBefore(c)[i].line)
                        /\ <<QueueBefore(c)[i].ts, "filtered">> \in dropped)
    /\ [][\A c \in Callers :
            (DrainDone(c) /\ cyc[c].items = << >> /\ cyc'[c] # cyc[c])
               => /\ cyc'[c] = IdleCtx
                  /\ UNCHANGED <<comment_q, worker_active, workers, emitted>>]_vars

\* C20 as the claim words it: the queue holds what it held before the call.
C20_AsClaimed ==
    \A c \in Callers :
       (DrainDone(c) /\ cyc[c].items = << >>) => comment_q = QueueBefore(c)

\* a cycle() has popped two entries and accepted none
C20_Witness ==
    /\ DrainDone(UICaller)
    /\ cyc[UICaller].items = << >>
    /\ Len(cyc[UICaller].popped) = 2

(***************************************************************************)
(* C21.  The drain of a cycle() tests every entry it removes: an older     *)
(* comment that passes the filter and sits behind newer comments that do   *)
(* not is reached by the same cycle(), which discards the newer ones and   *)
(* takes the older one for dispatch; what the scan does not reach stays in *)
(* the queue.  Stated for every queue, and for the queue                   *)
(* "b: hello there" then "a: hi" under the filter {"hello"}.               *)
(***************************************************************************)
\* The caller has finished the drain of a cycle() that found the matching
\* comment behind the newer one that does not match.
C21_Scenario ==
    /\ DrainDone(UICaller)
    /\ keyword_mode /\ keywords = <<KwHello>>
    /\ LinesOf(QueueBefore(UICaller)) = <<LineHello, LineHi>>

\* entry e is in sequence q
InSeq(e, q) == \E i \in 1..Len(q) : q[i] = e

C21_OlderMatchingReached ==
    /\ \A c \in Callers :
          DrainDone(c) =>
             /\ \A i \in 1..Len(QueueBefore(c)) :
                   InSeq(QueueBefore(c)[i], comment_q)
                   \/ InSeq(QueueBefore(c)[i], cyc[c].items)
                   \/ <<QueueBefore(c)[i].ts, "filtered">> \in dropped
             /\ Passing(c) # {} =>
                   /\ cyc[c].items # << >>
                   /\ cyc[c].items[1] = QueueBefore(c)[NewestPassing(c)]
    /\ C21_Scenario =>
          /\ LinesOf(cyc[UICaller].items) = <<LineHello>>
          /\ comment_q = << >>
          /\ <<QueueBefore(UICaller)[2].ts, "filtered">> \in dropped

\* C21 as the claim words it: in the scenario the older comment has left the
\* queue and was never tested (neither accepted nor filtered out).
C21_AsClaimed ==
    C21_Scenario =>
       /\ ~InSeq(QueueBefore(UICaller)[1], comment_q)
       /\ ~InSeq(QueueBefore(UICaller)[1], cyc[UICaller].items)
       /\ <<QueueBefore(UICaller)[1].ts, "filtered">> \notin dropped

\* the scenario's cycle() with the default max_batch
C21_Witness == C21_Scenario /\ max_batch = 1 /\ Len(cyc[UICaller].popped) = 2

(***************************************************************************)
(* C22.  With the keyword filter active the drain accepts a queued line    *)
(* exactly when the raw line, speaker part included, holds one of the      *)
(* configured keywords, letters compared without regard to case; with the  *)
(* filter active and no keyword it accepts no line, and with the filter    *)
(* inactive it accepts every line.                                         *)
(***************************************************************************)
\* the same letter, in either case
SameLetter(a, b) ==
    \/ a = b
    \/ {a, b} \in {{"A", "a"}, {"B", "b"}, {"H", "h"}, {"E", "e"}, {"L", "l"},
                   {"O", "o"}, {"T", "t"}, {"R", "r"}}

\* keyword k stands somewhere in the line, case aside
HoldsKeyword(line, k) ==
    \E i \in 0..(Len(line) - Len(k)) :
       \A j \in 1..Len(k) : SameLetter(line[i + j], k[j])

Eligible(line) ==
    keyword_mode => \E n \in 1..Len(keywords) : HoldsKeyword(line, keywords[n])

\* context c pops an entry in this step
Pops(c) == cyc[c].pc = "drain" /\ Len(comment_q') = Len(comment_q) - 1
              /\ cyc'[c].pc = "drain"

C22_FilterEligibility ==
    [][\A c \in Callers :
          Pops(c) =>
             LET e == comment_q[Len(comment_q)] IN
               /\ Eligible(e.line) => cyc'[c].items = Append(cyc[c].items, e)
               /\ ~Eligible(e.line) => cyc'[c].items = cyc[c].items
               /\ (keyword_mode /\ keywords = << >>) => cyc'[c].items = cyc[c].items
               /\ ~keyword_mode => cyc'[c].items = Append(cyc[c].items, e)]_vars

\* a line that holds the keyword in another case was accepted after a line
\* without it was turned away
C22_Witness ==
    /\ DrainDone(UICaller)
    /\ keyword_mode
    /\ LinesOf(cyc[UICaller].popped) = <<LineHi, LineShout>>
    /\ LinesOf(cyc[UICaller].items) = <<LineShout>>

(***************************************************************************)
(* C23.  With one caller context of cycle() the dispatch flag is true      *)
(* exactly while a dispatch is under way: from the moment _start_worker    *)
(* has set it (the thread is about to be started or is running) until the  *)
(* worker's finally block, and at no other time.                           *)
(***************************************************************************)
\* a dispatch has been started and its worker has not finished
DispatchUnderWay ==
    \/ \E c \in Callers : cyc[c].pc = "spawn"
    \/ ActiveWorkers # {}

C23_FlagIffWorker ==
    /\ worker_active <=> DispatchUnderWay
    /\ Cardinality(ActiveWorkers) + Cardinality({c \in Callers : cyc[c].pc = "spawn"}) <= 1

\* the second dispatch is running after the first one has finished and
\* cleared the flag
C23_Witness ==
    /\ Len(workers) = 2
    /\ workers[1].pc = "done"
    /\ workers[2].pc = "emit"
    /\ worker_active

(***************************************************************************)
(* C24.  The dispatch flag is checked and set in separate steps.  With     *)
(* cycle() invoked from two caller contexts every call still goes on only  *)
(* after it has read the flag as false, only a call that did so sets it,   *)
(* and the lock keeps the calls from taking the same comment; yet both     *)
(* calls can read the flag before either sets it, and then two dispatch    *)
(* workers are active at the same time (the witness).                      *)
(***************************************************************************)
C24_CheckThenSet ==
    /\ [][\A c \in Callers :
            /\ (cyc[c].pc = "chk" /\ cyc'[c].pc # "chk")
                  => (cyc'[c].pc = "lock" <=> ~worker_active)
            /\ (cyc[c].pc = "start" /\ cyc'[c].pc # "start")
                  => worker_active' /\ cyc'[c].pc = "spawn"]_vars
    /\ [](\A i \in 1..Len(workers) : \A j \in 1..Len(workers) :
             i # j => workers[i].ts # workers[j].ts)

\* the first two dispatches are both in flight
C24_Witness ==
    /\ Len(workers) = 2
    /\ ActiveWorkers = {1, 2}
    /\ workers[1].ts # workers[2].ts

(***************************************************************************)
(* C25.  Every stop() call that got past its guard while the thread of the *)
(* current run has not ended schedules the shutdown coroutine on the loop  *)
(* of the current run, in every interleaving of start(), the thread's      *)
(* creation of its loop, and stop().                                       *)
(***************************************************************************)
\* stop() leaves lines 118-130 in this step
SubmitDecided == ctl.pc = "stop_submit" /\ ctl'.pc # "stop_submit"

C25_StopSubmitsToCurrentRun ==
    [][(SubmitDecided /\ thread # 0 /\ runs[thread] # "dead")
          => /\ Len(coros') = Len(coros) + 1
             /\ coros'[Len(coros')].loop = thread]_vars

(***************************************************************************)
(* C26.  The queue lock is never held across a backend call: the lock is   *)
(* only ever held by a cycle() that is inside its drain loop, so while a   *)
(* worker is inside a backend call the lock is free or held by a drain,    *)
(* and with the single caller of cycle() it is free, so that add_comment   *)
(* gets it.                                                                *)
(***************************************************************************)
InBackendCall == {w \in 1..Len(workers) : workers[w].pc = "incall"}

LockHeldByDrain == lock \in Callers /\ cyc[lock].pc = "drain"

C26_NoLockAcrossCall ==
    /\ lock # "free" => LockHeldByDrain
    /\ InBackendCall # {} =>
          /\ lock = "free" \/ LockHeldByDrain
          /\ (\A c \in Callers \ {UICaller} : cyc[c].pc = "idle") => lock = "free"

\* a comment was enqueued after the dispatch of the worker that is inside
\* its backend call
C26_Witness ==
    \E w \in InBackendCall :
       /\ workers[w].mode = "dify"
       /\ workers[w].conf
       /\ comment_q # << >>
       /\ comment_q[Len(comment_q)].ts > workers[w].ts

AliveRuns == {k \in 1..Len(runs) : runs[k] # "dead"}

C28_OneThreadAlive == Cardinality(AliveRuns) <= 1

(***************************************************************************)
(* C29.  is_running() is true whenever a thread of _run_loop is in the     *)
(* liveness check or inside connect(): in particular the end of an earlier *)
(* run's thread does not clear the flag of a later run, so that stop() is  *)
(* accepted on every live connection.                                      *)
(***************************************************************************)
\* the runs that are checking liveness, connecting or connected
Serving == {k \in 1..Len(runs) : runs[k] \in {"islive", "connect", "serve"}}

\* the end of the thread of an earlier run leaves the flag of the current,
\* serving run as it is
OldThreadKeepsFlag ==
    \A k \in 1..Len(runs) :
       (runs[k] # "dead" /\ runs'[k] = "dead" /\ k # thread /\ thread \in Serving)
          => running' = running

C29_RunningWhileServing ==
    /\ [](Serving # {} => running)
    /\ [][OldThreadKeepsFlag]_vars

(***************************************************************************)
(* C30.  Once a stop() call that got past its guard has returned, the      *)
(* thread of the run it stopped eventually ends, and that run is no longer *)
(* connected, so that no comment is forwarded any more.  Stated for the    *)
(* first run: while no second start() was accepted, a logged "stopped"     *)
(* message means that a stop() of run 1 has returned.                      *)
(***************************************************************************)
FirstRunStopped ==
    Len(runs) = 1 /\ \E i \in 1..Len(flog) : flog[i] = InfoStopped

\* run k holds the connection over which comment events arrive
Forwarding(k) == runs[k] = "serve" /\ connected = k

\* the thread of run k has ended
Ended(k) == k <= Len(runs) /\ runs[k] = "dead"

C30_StoppedRunEnds ==
    /\ [](FirstRunStopped => <>Ended(1))
    /\ [](FirstRunStopped => ~Forwarding(1))

(***************************************************************************)
(* C31.  With the comment callback wired to add_comment, every comment     *)
(* event the adapter delivers adds exactly one entry to the queue, the     *)
(* line "{speaker}: {text}", whatever the speaker name and the text are;   *)
(* the speaker is the nickname, else the unique id, else "?".              *)
(***************************************************************************)
\* this step is _on_comment handling an event it could read: it counts the
\* event, reports nothing and hands one line to the comment callback
CommentForwarded ==
    /\ events' = events + 1
    /\ flog' = flog
    /\ Len(sink') = Len(sink) + 1

C31_CommentEnqueued ==
    [][CommentForwarded =>
          /\ comment_q' # << >>
          /\ comment_q'[Len(comment_q')].line = sink'[Len(sink')].text
          /\ clock' = clock + 1
          /\ Len(comment_q') = (IF Len(comment_q) >= MAXLEN THEN MAXLEN
                                ELSE Len(comment_q) + 1)
          /\ \E nick \in WireNicknames, uid \in UniqueIds, text \in CommentTexts :
                sink'[Len(sink')].text =
                   (IF nick # << >> THEN nick ELSE IF uid # << >> THEN uid ELSE <<"?">>)
                      \o <<":", " ">> \o text]_vars

(***************************************************************************)
(* C32.  No message of the fetcher enters the comment queue or reaches a   *)
(* dispatch worker: whatever _emit_info, and _emit_error without an error  *)
(* callback, hand to the comment callback begins with "[", add_comment     *)
(* turns it away, and no queued or dispatched line begins with "[".        *)
(***************************************************************************)
\* the calls of the callbacks made in this step
NewCalls == SubSeq(sink', Len(sink) + 1, Len(sink'))

C32_MessagesNotEnqueued ==
    /\ [][flog' # flog =>
            /\ comment_q' = comment_q
            /\ clock' = clock
            /\ \A i \in 1..Len(NewCalls) :
                  NewCalls[i].ch = "comment"
                     => /\ NewCalls[i].text[1] = "["
                        /\ rejected']_vars
    /\ [](/\ \A i \in 1..Len(comment_q) : ~StartsWith(comment_q[i].line, "[")
          /\ \A w \in 1..Len(workers) : ~StartsWith(workers[w].line, "["))

\* without an error callback an error went through the comment callback and
\* was turned away, while a viewer's comment is being answered
C32_Witness ==
    /\ ~error_callback
    /\ rejected
    /\ sink # << >>
    /\ sink[Len(sink)] = [ch |-> "comment", text |-> WarnTag \o <<ErrNotRunning>>]
    /\ ActiveWorkers # {}

(***************************************************************************)
(* C33.  With one caller context of cycle(), a worker makes its emission   *)
(* before it clears the dispatch flag: the step that clears the flag is    *)
(* the finally block of a worker that has emitted, a dispatch is only      *)
(* prepared or running when every earlier dispatch has emitted, and the    *)
(* emissions come in the order of the dispatches.                          *)
(***************************************************************************)
C33_EmitBeforeFlagCleared ==
    /\ [][(worker_active /\ ~worker_active')
            => \E w \in 1..Len(workers) :
                  /\ workers[w].pc = "finally"
                  /\ workers'[w].pc = "done"
                  /\ Cardinality(EmissionsOf(w)) = 1]_vars
    /\ [](/\ \A w \in 1..Len(workers) : \A v \in 1..(w - 1) : EmissionsOf(v) # {}
          /\ (\E c \in Callers : cyc[c].pc \in {"start", "spawn"})
                => \A v \in 1..Len(workers) : EmissionsOf(v) # {}
          /\ \A i \in 1..Len(emitted) : \A j \in 1..Len(emitted) :
                i < j => emitted[i].w < emitted[j].w)

\* the second dispatch has just emitted, after the first, and the flag is
\* still set
C33_Witness ==
    /\ Len(emitted) = 2
    /\ emitted[1].w = 1
    /\ emitted[2].w = 2
    /\ workers[2].pc = "finally"
    /\ worker_active

(***************************************************************************)
(* C34.  _extract_comment_text undoes the formatting of _on_comment: from  *)
(* the line "{speaker}: {text}", the speaker holding no ":", it returns    *)
(* the text without its leading and trailing white space, also when the    *)
(* text holds a ":" itself (the split is at the first ":"); a line without *)
(* ":" is returned whole, trimmed.                                         *)
(***************************************************************************)
\* the texts of ExtractTexts without leading and trailing white space
Trimmed(text) ==
    CASE text = << >>      -> << >>
      [] text = TextPadded -> <<"h", "i">>
      [] text = TextColon  -> <<"a", ":", "b">>

\* the workers that have extracted the text of their line
Extracted == {w \in 1..Len(workers) : workers[w].pc \in {"select", "emit", "finally"}}

C34_ExtractInvertsFormat ==
    \A w \in Extracted :
       /\ \A nick \in Nicknames, uid \in UniqueIds, text \in ExtractTexts :
             workers[w].line = Username(nick, uid) \o <<":", " ">> \o text
                => workers[w].text = Trimmed(text)
       /\ workers[w].line = LineNoColon => workers[w].text = <<"h", "e", "y">>

\* the text of "al: a:b" has been extracted
C34_Witness ==
    \E w \in Extracted :
       /\ workers[w].line = <<"a", "l", ":", " ", "a", ":", "b">>
       /\ workers[w].text = <<"a", ":", "b">>

====
